---- MODULE Spec2Model ----
(***************************************************************************)
(* Essay analysis back end (backend/ml_scripts): the rule-based error      *)
(* detector with its overlap resolver (error_detection.py), the score      *)
(* fusion and feedback pipeline and its command entry point                *)
(* (essay_inference.py), and the feature extraction they consume           *)
(* (essay_model.py).                                                       *)
(*                                                                         *)
(* Conventions of the model:                                               *)
(*   - texts are strings; offsets are 0-based as in Python, so the         *)
(*     character at Python offset i is SubSeq(text, i+1, i+1);             *)
(*   - a confidence is kept in tenths (0.9 is 9);                          *)
(*   - a score is kept in millionths (6.0 is 6000000), a quotient as the   *)
(*     pair of its numerator and denominator;                              *)
(*   - a Python list is a sequence, a dict with fixed keys is a record.    *)
(***************************************************************************)
EXTENDS Integers, Sequences, FiniteSets, TLC

VARIABLES
    \* ---- the resolver on its own (filter_overlapping_errors) ----
    fpc,            \* "build" while the candidate list is assembled, "done" after the call
    cands,          \* the candidate list handed to filter_overlapping_errors
    filtered,       \* the list it returned
    \* ---- detection (error_detection.py, module level) ----
    error_detector, \* the module's singleton: None or the AdvancedErrorDetector instance
    dpc,            \* "compose", "between" (after the first call), "done" (after the repeat)
    dtext,          \* the text handed to detect_errors
    nfrag,          \* number of fragments the text is made of
    first_call,     \* text and result of the first detect_errors call
    last_call,      \* text and result of the latest detect_errors call
    \* ---- the command (essay_inference.py) ----
    pc,             \* where the run of main is
    argv,           \* sys.argv
    stdin,          \* what sys.stdin.read() gives
    stdout,         \* the documents printed so far
    exit_code,      \* <<>> while the process runs, then its exit status
    essay_model,    \* the singleton of essay_model.py: None or the model instance
    comprehensive_analyzer, \* the singleton of essay_inference.py
    frame,          \* the locals of main and of analyze_essay_comprehensive
    \* ---- the adjustment on its own (adjust_scores_for_errors) ----
    given_scores,   \* the scores handed to adjust_scores_for_errors
    given_errors,   \* the error list handed to it
    returned,       \* the scores it returned for given_errors
    returned_before, \* the scores it returned before the last error was added
    \* ---- the lazy accessors called from several threads ----
    tstack,         \* the call stack of each thread, innermost call last
    tgot,           \* what each thread has been handed by its calls
    heap,           \* the instances constructed so far
    singletons,     \* the three module globals: 0 (None) or a place of the heap
    networks,       \* number of networks build_advanced_model has built
    \* ---- feedback and improvements on their own ----
    the_scores,     \* the adjusted scores handed to the two generators
    the_level,      \* the level handed to them
    the_errors,     \* the error list handed to them
    feedback_items, \* what generate_comprehensive_feedback returned
    feedback_items_before, \* what it returned before the last error was added
    improvement_items, \* what generate_improvement_suggestions returned
    \* ---- the loop of combine_scores ----
    ml_in,          \* ml_scores handed to combine_scores
    rule_in,        \* rule_scores handed to it
    loop_at,        \* the aspects processed so far (4 when the loop is over, 5 on return)
    ml_weight,      \* the local ml_weight, in tenths
    rule_weight,    \* the local rule_weight, in tenths
    weights_used,   \* the weight pair each processed aspect was combined with
    combined,       \* the local dict combined
    \* ---- calculate_structure_score on its own ----
    struct_call,    \* the arguments of a call of calculate_structure_score
    struct_result,  \* None, or what the call returned
    \* ---- get_rule_based_scores on its own ----
    rules_call,     \* the essay, prompt and level of a call of get_rule_based_scores
    rules_result,   \* None, or what the call returned or raised
    \* ---- detect_grammar_errors on its own ----
    gram_text,      \* the text handed to detect_grammar_errors
    gram_errors     \* None, or the records it returned

filterVars == <<fpc, cands, filtered>>
callVars == <<dpc, dtext, nfrag, first_call, last_call>>
detectVars == <<error_detector, callVars>>
mainVars == <<pc, argv, stdin, stdout, exit_code, essay_model, comprehensive_analyzer, frame>>

adjustVars == <<given_scores, given_errors, returned, returned_before>>

threadVars == <<tstack, tgot, heap, singletons, networks>>

synthVars == <<the_scores, the_level, the_errors, feedback_items, feedback_items_before,
               improvement_items>>

combineVars == <<ml_in, rule_in, loop_at, ml_weight, rule_weight, weights_used, combined>>

structureVars == <<struct_call, struct_result>>

rulesVars == <<rules_call, rules_result>>

grammarVars == <<gram_text, gram_errors>>

vars == <<filterVars, detectVars, mainVars, adjustVars, threadVars, synthVars, combineVars,
          structureVars, rulesVars, grammarVars>>

\* Python's None, where the other values are records
None == [none |-> TRUE]

(***************************************************************************)
(* Bounds of the model.                                                    *)
(***************************************************************************)
MaxCands == 3       \* longest candidate list handed to the resolver on its own
MaxPos == 2         \* largest offset of such a candidate
MaxFragments == 3   \* number of fragments a text handed to detect_errors is made of
MaxErrors == 18     \* longest error list handed to adjust_scores_for_errors on its own
MaxThreads == 2     \* number of threads that enter the modules
MaxSynthErrors == 6 \* longest error list handed to the two generators on their own
MaxMixed == 3       \* length up to which such a list takes errors of any type
MaxParagraphs == 5  \* most paragraphs of an essay whose structure is scored
MaxTransitions == 4 \* most transition words found in it

(***************************************************************************)
(* Small helpers.                                                          *)
(***************************************************************************)
Max(a, b) == IF a >= b THEN a ELSE b
Min(a, b) == IF a <= b THEN a ELSE b
Last(s) == s[Len(s)]
Front(s) == SubSeq(s, 1, Len(s) - 1)

(***************************************************************************)
(* Python strings.  Offsets are 0-based; t[a:b] is Slice(t, a, b).         *)
(***************************************************************************)
UpperLetters == {"A","B","C","D","E","F","G","H","I","J","K","L","M",
                 "N","O","P","Q","R","S","T","U","V","W","X","Y","Z"}
LowerLetters == {"a","b","c","d","e","f","g","h","i","j","k","l","m",
                 "n","o","p","q","r","s","t","u","v","w","x","y","z"}
Digits == {"0","1","2","3","4","5","6","7","8","9"}

\* str.lower() on one character
LowerOfUpper ==
    ("A" :> "a") @@ ("B" :> "b") @@ ("C" :> "c") @@ ("D" :> "d") @@ ("E" :> "e") @@
    ("F" :> "f") @@ ("G" :> "g") @@ ("H" :> "h") @@ ("I" :> "i") @@ ("J" :> "j") @@
    ("K" :> "k") @@ ("L" :> "l") @@ ("M" :> "m") @@ ("N" :> "n") @@ ("O" :> "o") @@
    ("P" :> "p") @@ ("Q" :> "q") @@ ("R" :> "r") @@ ("S" :> "s") @@ ("T" :> "t") @@
    ("U" :> "u") @@ ("V" :> "v") @@ ("W" :> "w") @@ ("X" :> "x") @@ ("Y" :> "y") @@
    ("Z" :> "z")

LowerChar(c) == IF c \in UpperLetters THEN LowerOfUpper[c] ELSE c

\* str.lower()
RECURSIVE Lower(_)
Lower(t) ==
    IF Len(t) = 0 THEN ""
    ELSE IF Len(t) = 1 THEN LowerChar(t)
    ELSE Lower(SubSeq(t, 1, Len(t) \div 2)) \o Lower(SubSeq(t, Len(t) \div 2 + 1, Len(t)))

\* t[i], "" when i is outside the string
CharAt(t, i) == IF i >= 0 /\ i < Len(t) THEN SubSeq(t, i + 1, i + 1) ELSE ""

\* t[a:b] for 0 <= a
Slice(t, a, b) == SubSeq(t, a + 1, Min(b, Len(t)))

\* regex classes [a-zA-Z], \w, \s (also str.strip()'s whitespace) and [.!?]
IsLetter(c) == c \in UpperLetters \/ c \in LowerLetters
IsWordChar(c) == IsLetter(c) \/ c \in Digits \/ c = "_"
IsSpace(c) == c \in {" ", "\n", "\t", "\r", "\f"}
IsTerminator(c) == c \in {".", "!", "?"}

\* regex \b at offset i
IsBoundary(t, i) == IsWordChar(CharAt(t, i - 1)) # IsWordChar(CharAt(t, i))

\* the literal lit occurs in t at offset i
LitAt(t, i, lit) == i + Len(lit) <= Len(t) /\ SubSeq(t, i + 1, i + Len(lit)) = lit

\* the least element of a non-empty set of integers
MinOf(S) == CHOOSE k \in S : \A j \in S : k <= j

\* the value of a set that holds one value: Only({ e : x \in {v} }) is e with
\* x standing for v, computed once
Only(S) == CHOOSE r \in S : TRUE

\* the character classes runs are made of: \s, \w, [.!?], [^.!?] and \S
InClass(c, class) ==
    CASE class = "space" -> IsSpace(c)
      [] class = "word" -> IsWordChar(c)
      [] class = "terminator" -> IsTerminator(c)
      [] class = "nonterminator" -> c # "" /\ ~IsTerminator(c)
      [] class = "nonspace" -> c # "" /\ ~IsSpace(c)

\* the first offset >= i whose character is not in the class
SkipWhile(t, i, class) ==
    CHOOSE k \in i..Max(i, Len(t)) :
        ~InClass(CharAt(t, k), class) /\ \A j \in i..(k - 1) : InClass(CharAt(t, j), class)

\* str.find(sub, i): the first offset >= i at which sub occurs, or -1
FindFrom(t, sub, i) ==
    IF \E k \in i..(Len(t) - Len(sub)) : LitAt(t, k, sub)
    THEN MinOf({ k \in i..(Len(t) - Len(sub)) : LitAt(t, k, sub) })
    ELSE -1

Find(t, sub) == FindFrom(t, sub, 0)

\* "sub in t"
Contains(t, sub) == \E k \in 0..(Len(t) - Len(sub)) : LitAt(t, k, sub)

\* str.strip()
Strip(t) ==
    IF \A k \in 0..(Len(t) - 1) : IsSpace(CharAt(t, k)) THEN ""
    ELSE SubSeq(t, 1 + MinOf({ k \in 0..(Len(t) - 1) : ~IsSpace(CharAt(t, k)) }),
                   1 - MinOf({ -k : k \in { j \in 0..(Len(t) - 1) : ~IsSpace(CharAt(t, j)) } }))

\* list.extend over the lists ss[lo], ..., ss[hi]
RECURSIVE ConcatRange(_, _, _)
ConcatRange(ss, lo, hi) ==
    IF lo > hi THEN <<>>
    ELSE IF lo = hi THEN ss[lo]
    ELSE ConcatRange(ss, lo, (lo + hi) \div 2) \o ConcatRange(ss, (lo + hi) \div 2 + 1, hi)

ConcatAll(ss) == ConcatRange(ss, 1, Len(ss))

\* the elements of a set of offsets of t, in increasing order
Ascending(S, t) ==
    ConcatAll([k \in 1..Len(t) |-> IF (k - 1) \in S THEN <<k - 1>> ELSE <<>>])

\* str.split(sep) for a non-empty separator
RECURSIVE SplitOn(_, _)
SplitOn(t, sep) ==
    IF Find(t, sep) = -1 THEN <<t>>
    ELSE <<Slice(t, 0, Find(t, sep))>> \o SplitOn(Slice(t, Find(t, sep) + Len(sep), Len(t)), sep)

\* str.replace(old, new)
RECURSIVE Replace(_, _, _)
Replace(t, old, new) ==
    IF Find(t, old) = -1 THEN t
    ELSE Slice(t, 0, Find(t, old)) \o new
             \o Replace(Slice(t, Find(t, old) + Len(old), Len(t)), old, new)

\* the parts stripped, the empty ones kept
StripKeepingEmpty(parts) == [k \in 1..Len(parts) |-> Strip(parts[k])]

\* [p.strip() for p in parts if p.strip()]
StripNonEmpty(parts) ==
    SelectSeq([k \in 1..Len(parts) |-> Strip(parts[k])], LAMBDA p : p # "")

\* re.split(r'[.!?]+', t), from offset from on
RECURSIVE SplitSentences(_, _)
SplitSentences(t, from) ==
    IF SkipWhile(t, from, "nonterminator") >= Len(t) THEN <<Slice(t, from, Len(t))>>
    ELSE <<Slice(t, from, SkipWhile(t, from, "nonterminator"))>>
             \o SplitSentences(t, SkipWhile(t, SkipWhile(t, from, "nonterminator"), "terminator"))

\* str.split(): the maximal runs of characters that are not whitespace
SplitWhitespace(t) ==
    Only({ [k \in 1..Len(starts) |-> Slice(t, starts[k], SkipWhile(t, starts[k], "nonspace"))] :
           starts \in { Ascending({ i \in 0..(Len(t) - 1) :
                                      /\ ~IsSpace(CharAt(t, i))
                                      /\ (i = 0 \/ IsSpace(CharAt(t, i - 1))) }, t) } })

\* re.finditer(r'\b\w+\b', t): <<start, end>> of every maximal run of \w
WordSpans(t) ==
    Only({ [k \in 1..Len(starts) |-> <<starts[k], SkipWhile(t, starts[k], "word")>>] :
           starts \in { Ascending({ i \in 0..(Len(t) - 1) :
                                      /\ IsWordChar(CharAt(t, i))
                                      /\ ~IsWordChar(CharAt(t, i - 1)) }, t) } })

(***************************************************************************)
(* The regular expressions of error_detection.py.  A compiled pattern is   *)
(* a record; MatchEnd gives the end offset of its match that starts at     *)
(* offset i, or -1.  t is the text and tl is t.lower(): a pattern compiled *)
(* with re.IGNORECASE compares its literals with tl.                       *)
(***************************************************************************)
\* \s+ at offset j: the offset after the run of whitespace, or -1
AfterSpaces(t, j) == IF IsSpace(CharAt(t, j)) THEN SkipWhile(t, j, "space") ELSE -1

\* what follows the \s+ of a two-part pattern, at offset p: the end offset, or -1
TailEnd(pat, t, tl, p) ==
    CASE pat.tail = "alternatives" ->
            \* (a|b|...)\b : the first alternative that matches
            IF \E k \in 1..Len(pat.seconds) :
                   LitAt(tl, p, pat.seconds[k]) /\ IsBoundary(t, p + Len(pat.seconds[k]))
            THEN p + Len(pat.seconds[MinOf({ k \in 1..Len(pat.seconds) :
                             /\ LitAt(tl, p, pat.seconds[k])
                             /\ IsBoundary(t, p + Len(pat.seconds[k])) })])
            ELSE -1
      [] pat.tail = "ed" ->
            \* \w*ed\b : the word that starts at p ends in "ed"
            IF SkipWhile(t, p, "word") - p >= 2
               /\ Slice(tl, SkipWhile(t, p, "word") - 2, SkipWhile(t, p, "word")) = "ed"
            THEN SkipWhile(t, p, "word") ELSE -1
      [] pat.tail = "nt" ->
            \* \w*n't\b : word characters up to an "n" followed by "'t"
            IF /\ SkipWhile(t, p, "word") > p
               /\ CharAt(tl, SkipWhile(t, p, "word") - 1) = "n"
               /\ LitAt(tl, SkipWhile(t, p, "word"), "'t")
               /\ IsBoundary(t, SkipWhile(t, p, "word") + 2)
            THEN SkipWhile(t, p, "word") + 2 ELSE -1
      [] pat.tail = "sentence" ->
            \* [^.!?]*\.\s*[A-Z] (IGNORECASE: any letter)
            IF /\ CharAt(t, SkipWhile(t, p, "nonterminator")) = "."
               /\ IsLetter(CharAt(t, SkipWhile(t, SkipWhile(t, p, "nonterminator") + 1, "space")))
            THEN SkipWhile(t, SkipWhile(t, p, "nonterminator") + 1, "space") + 1 ELSE -1

\* the literal f, \s+ and the tail of a two-part pattern at offset i: the end
\* offset, or -1
HeadTailEnd(pat, t, tl, i, f) ==
    IF LitAt(tl, i, f) /\ AfterSpaces(t, i + Len(f)) # -1
    THEN TailEnd(pat, t, tl, AfterSpaces(t, i + Len(f)))
    ELSE -1

MatchEnd(pat, t, tl, i) ==
    CASE pat.kind = "word" ->
            \* \b literal \b
            IF IsBoundary(t, i) /\ LitAt(tl, i, pat.lit) /\ IsBoundary(t, i + Len(pat.lit))
            THEN i + Len(pat.lit) ELSE -1
      [] pat.kind = "pair" ->
            \* \b(f1|f2|...)\s+ tail : the first alternative that lets the tail match
            IF /\ IsBoundary(t, i)
               /\ \E k \in 1..Len(pat.firsts) : HeadTailEnd(pat, t, tl, i, pat.firsts[k]) # -1
            THEN HeadTailEnd(pat, t, tl, i,
                     pat.firsts[MinOf({ k \in 1..Len(pat.firsts) :
                                          HeadTailEnd(pat, t, tl, i, pat.firsts[k]) # -1 })])
            ELSE -1
      [] pat.kind = "modal" ->
            \* \bcould of|should of|would of|must of|might of\b : the \b binds to
            \* the first and to the last alternative only
            IF IsBoundary(t, i) /\ LitAt(tl, i, "could of") THEN i + 8
            ELSE IF LitAt(tl, i, "should of") THEN i + 9
            ELSE IF LitAt(tl, i, "would of") THEN i + 8
            ELSE IF LitAt(tl, i, "must of") THEN i + 7
            ELSE IF LitAt(tl, i, "might of") /\ IsBoundary(t, i + 8) THEN i + 8
            ELSE -1
      [] pat.kind = "multi" ->
            \* [.!?]{2,}
            IF IsTerminator(CharAt(t, i)) /\ IsTerminator(CharAt(t, i + 1))
            THEN SkipWhile(t, i, "terminator") ELSE -1
      [] pat.kind = "nospace" ->
            \* [.!?,;:][a-zA-Z]
            IF CharAt(t, i) \in {".", "!", "?", ",", ";", ":"} /\ IsLetter(CharAt(t, i + 1))
            THEN i + 2 ELSE -1
      [] pat.kind = "spacebefore" ->
            \* \s+[,;:]
            IF IsSpace(CharAt(t, i)) /\ CharAt(t, SkipWhile(t, i, "space")) \in {",", ";", ":"}
            THEN SkipWhile(t, i, "space") + 1 ELSE -1
      [] pat.kind = "parens" ->
            \* [a-zA-Z]\s*$$[^)]*$$\s*[a-zA-Z] : "$" holds only at the end of the
            \* text (or before its final newline), and a letter must follow it
            -1
      [] pat.kind = "byagent" ->
            \* \s+by\b
            IF AfterSpaces(t, i) # -1 /\ LitAt(tl, AfterSpaces(t, i), "by")
               /\ IsBoundary(t, AfterSpaces(t, i) + 2)
            THEN AfterSpaces(t, i) + 2 ELSE -1

\* re.compile of the pattern strings of the catalog
Compile(pattern) ==
    CASE pattern = "\\b(he|she|it)\\s+(are|were)\\b" ->
            [kind |-> "pair", firsts |-> <<"he", "she", "it">>,
             tail |-> "alternatives", seconds |-> <<"are", "were">>]
      [] pattern = "\\b(they|we|you)\\s+(is|was)\\b" ->
            [kind |-> "pair", firsts |-> <<"they", "we", "you">>,
             tail |-> "alternatives", seconds |-> <<"is", "was">>]
      [] pattern = "\\bcould of|should of|would of|must of|might of\\b" -> [kind |-> "modal"]
      [] pattern = "\\bdon't\\s+\\w*n't\\b|\\bcan't\\s+\\w*n't\\b" ->
            [kind |-> "pair", firsts |-> <<"don't", "can't">>, tail |-> "nt"]
      [] pattern = "\\bdifferent than\\b" -> [kind |-> "word", lit |-> "different than"]
      [] pattern = "\\b(Because|Since|Although|While|If)\\s+[^.!?]*\\.\\s*[A-Z]" ->
            [kind |-> "pair", firsts |-> <<"because", "since", "although", "while", "if">>,
             tail |-> "sentence"]
      [] pattern = "[.!?]{2,}" -> [kind |-> "multi"]
      [] pattern = "[.!?,;:][a-zA-Z]" -> [kind |-> "nospace"]
      [] pattern = "\\s+[,;:]" -> [kind |-> "spacebefore"]
      [] pattern = "[a-zA-Z]\\s*$$[^)]*$$\\s*[a-zA-Z]" -> [kind |-> "parens"]
      [] pattern = "\\bvery\\s+very\\b" ->
            [kind |-> "pair", firsts |-> <<"very">>, tail |-> "alternatives",
             seconds |-> <<"very">>]
      [] pattern = "\\bthat\\s+that\\b" ->
            [kind |-> "pair", firsts |-> <<"that">>, tail |-> "alternatives",
             seconds |-> <<"that">>]
      [] pattern = "\\bin order to\\b" -> [kind |-> "word", lit |-> "in order to"]
      [] pattern = "\\bdue to the fact that\\b" -> [kind |-> "word", lit |-> "due to the fact that"]
      [] pattern = "\\b(is|are|was|were|be|been|being)\\s+\\w*ed\\b" ->
            [kind |-> "pair", firsts |-> <<"is", "are", "was", "were", "be", "been", "being">>,
             tail |-> "ed"]
      [] pattern = "\\s+by\\b" -> [kind |-> "byagent"]

\* r'\b' + re.escape(word) + r'\b'
WordPattern(word) == [kind |-> "word", lit |-> word]

\* the offsets of t at which pat matches
MatchStarts(pat, t, tl) == { i \in 0..(Len(t) - 1) : MatchEnd(pat, t, tl, i) # -1 }

\* re.finditer(pattern, t): the <<start, end>> of the successive matches, each
\* searched from the end of the one before; starts holds the offsets >= i at
\* which pat matches
RECURSIVE FindIterFrom(_, _, _, _)
FindIterFrom(pat, t, tl, starts) ==
    IF starts = {} THEN <<>>
    ELSE <<<<MinOf(starts), MatchEnd(pat, t, tl, MinOf(starts))>>>>
             \o FindIterFrom(pat, t, tl,
                    { k \in starts : k >= MatchEnd(pat, t, tl, MinOf(starts)) })

FindIter(pat, t, tl) == FindIterFrom(pat, t, tl, MatchStarts(pat, t, tl))

\* re.search(pattern, t): the first match, or <<>>
Search(pat, t, tl) ==
    IF \A i \in 0..(Len(t) - 1) : MatchEnd(pat, t, tl, i) = -1 THEN <<>>
    ELSE FindIterFrom(pat, t, tl, {MinOf(MatchStarts(pat, t, tl))})[1]

\* re.sub(r'\bword\b', repl, t, flags=re.IGNORECASE)
RECURSIVE SubSpans(_, _, _, _)
SubSpans(t, spans, repl, from) ==
    IF spans = <<>> THEN Slice(t, from, Len(t))
    ELSE Slice(t, from, Head(spans)[1]) \o repl \o SubSpans(t, Tail(spans), repl, Head(spans)[2])

SubWord(t, word, repl) == SubSpans(t, FindIter(WordPattern(word), t, Lower(t)), repl, 0)

(***************************************************************************)
(* error_detection.py: the error records.                                  *)
(***************************************************************************)
\* self.error_types, initialize_components
error_types ==
    [spelling |-> "Spelling Error", grammar |-> "Grammar Error",
     punctuation |-> "Punctuation Error", word_choice |-> "Word Choice Error",
     style |-> "Style Issue", coherence |-> "Coherence Issue",
     redundancy |-> "Redundancy Issue", clarity |-> "Clarity Issue"]

\* the dict literal every detector appends
ErrorRecord(type, txt, start_pos, end_pos, suggestion, explanation, severity, confidence) ==
    [type |-> type, error_type |-> error_types[type], text |-> txt,
     start_pos |-> start_pos, end_pos |-> end_pos, suggestion |-> suggestion,
     explanation |-> explanation, severity |-> severity, confidence |-> confidence]

(***************************************************************************)
(* error_detection.py: the pattern catalog (load_error_patterns).  A dict  *)
(* the code iterates is a sequence of <<key, value>> in insertion order.   *)
(***************************************************************************)
spelling_corrections ==
    <<
      <<"alot", "a lot">>, <<"cant", "can't">>, <<"dont", "don't">>,
      <<"doesnt", "doesn't">>, <<"didnt", "didn't">>,
      <<"couldnt", "couldn't">>, <<"shouldnt", "shouldn't">>,
      <<"wouldnt", "wouldn't">>, <<"wont", "won't">>, <<"isnt", "isn't">>,
      <<"wasnt", "wasn't">>, <<"werent", "weren't">>,
      <<"havent", "haven't">>, <<"hasnt", "hasn't">>, <<"hadnt", "hadn't">>,
      <<"youre", "you're">>, <<"youve", "you've">>, <<"youll", "you'll">>,
      <<"youd", "you'd">>, <<"hes", "he's">>, <<"shes", "she's">>,
      <<"weve", "we've">>, <<"wed", "we'd">>, <<"theyd", "they'd">>,
      <<"theyve", "they've">>, <<"thats", "that's">>, <<"whats", "what's">>,
      <<"wheres", "where's">>, <<"hows", "how's">>, <<"whos", "who's">>,
      <<"whens", "when's">>, <<"whys", "why's">>, <<"recieve", "receive">>,
      <<"seperate", "separate">>, <<"definately", "definitely">>,
      <<"occured", "occurred">>, <<"begining", "beginning">>,
      <<"beleive", "believe">>, <<"acheive", "achieve">>,
      <<"neccessary", "necessary">>, <<"accomodate", "accommodate">>,
      <<"embarass", "embarrass">>, <<"existance", "existence">>,
      <<"independant", "independent">>, <<"maintainance", "maintenance">>,
      <<"occassion", "occasion">>, <<"priviledge", "privilege">>,
      <<"recomend", "recommend">>, <<"succesful", "successful">>,
      <<"tommorrow", "tomorrow">>, <<"untill", "until">>,
      <<"wierd", "weird">>, <<"goverment", "government">>,
      <<"enviroment", "environment">>, <<"arguement", "argument">>,
      <<"judgement", "judgment">>, <<"knowlege", "knowledge">>,
      <<"rythm", "rhythm">>, <<"speach", "speech">>,
      <<"writting", "writing">>, <<"grammer", "grammar">>
    >>

word_choice_errors ==
    <<
      <<"affect", <<"effect">>>>, <<"effect", <<"affect">>>>,
      <<"accept", <<"except">>>>, <<"except", <<"accept">>>>,
      <<"than", <<"then">>>>, <<"then", <<"than">>>>,
      <<"there", <<"their", "they're">>>>,
      <<"their", <<"there", "they're">>>>,
      <<"they're", <<"there", "their">>>>, <<"your", <<"you're">>>>,
      <<"you're", <<"your">>>>, <<"its", <<"it's">>>>, <<"it's", <<"its">>>>,
      <<"whose", <<"who's">>>>, <<"who's", <<"whose">>>>,
      <<"weather", <<"whether">>>>, <<"whether", <<"weather">>>>,
      <<"lose", <<"loose">>>>, <<"loose", <<"lose">>>>,
      <<"principal", <<"principle">>>>, <<"principle", <<"principal">>>>,
      <<"complement", <<"compliment">>>>, <<"compliment", <<"complement">>>>,
      <<"desert", <<"dessert">>>>, <<"dessert", <<"desert">>>>,
      <<"advice", <<"advise">>>>, <<"advise", <<"advice">>>>,
      <<"breath", <<"breathe">>>>, <<"breathe", <<"breath">>>>,
      <<"choose", <<"chose">>>>, <<"chose", <<"choose">>>>
    >>

grammar_patterns ==
    <<
      [pattern |-> "\\b(he|she|it)\\s+(are|were)\\b",
       message |-> "Subject-verb agreement error",
       suggestion |-> "Use 'is' or 'was' with singular subjects",
       severity |-> "high"],
      [pattern |-> "\\b(they|we|you)\\s+(is|was)\\b",
       message |-> "Subject-verb agreement error",
       suggestion |-> "Use 'are' or 'were' with plural subjects",
       severity |-> "high"],
      [pattern |-> "\\bcould of|should of|would of|must of|might of\\b",
       message |-> "Incorrect modal verb form",
       suggestion |-> "Use 'have' instead of 'of' after modal verbs",
       severity |-> "high"],
      [pattern |-> "\\bdon't\\s+\\w*n't\\b|\\bcan't\\s+\\w*n't\\b",
       message |-> "Double negative",
       suggestion |-> "Use only one negative in a sentence",
       severity |-> "medium"],
      [pattern |-> "\\bdifferent than\\b",
       message |-> "Incorrect preposition",
       suggestion |-> "Use 'different from' instead of 'different than'",
       severity |-> "medium"],
      [pattern |-> "\\b(Because|Since|Although|While|If)\\s+[^.!?]*\\.\\s*[A-Z]",
       message |-> "Possible sentence fragment",
       suggestion |-> "Complete the dependent clause or connect to main clause",
       severity |-> "medium"]
    >>

punctuation_patterns ==
    <<
      [pattern |-> "[.!?]{2,}",
       message |-> "Multiple punctuation marks",
       suggestion |-> "Use only one punctuation mark",
       severity |-> "low"],
      [pattern |-> "[.!?,;:][a-zA-Z]",
       message |-> "Missing space after punctuation",
       suggestion |-> "Add space after punctuation marks",
       severity |-> "medium"],
      [pattern |-> "\\s+[,;:]",
       message |-> "Space before punctuation",
       suggestion |-> "Remove space before punctuation",
       severity |-> "low"],
      [pattern |-> "[a-zA-Z]\\s*$$[^)]*$$\\s*[a-zA-Z]",
       message |-> "Parentheses spacing",
       suggestion |-> "Check spacing around parentheses",
       severity |-> "low"]
    >>

style_patterns ==
    <<
      [pattern |-> "\\bvery\\s+very\\b",
       message |-> "Redundant intensifier",
       suggestion |-> "Use a single, stronger adjective",
       severity |-> "low"],
      [pattern |-> "\\bthat\\s+that\\b",
       message |-> "Repeated word",
       suggestion |-> "Remove redundant 'that'",
       severity |-> "low"],
      [pattern |-> "\\bin order to\\b",
       message |-> "Wordy phrase",
       suggestion |-> "Consider using 'to' instead",
       severity |-> "low"],
      [pattern |-> "\\bdue to the fact that\\b",
       message |-> "Wordy phrase",
       suggestion |-> "Consider using 'because' instead",
       severity |-> "low"]
    >>

\* the detector instance after __init__: initialize_components, then
\* load_error_patterns; nlp_available records whether spacy.load succeeded
AdvancedErrorDetector(nlp_available) ==
    [nlp_available |-> nlp_available,
     error_types |-> error_types,
     spelling_corrections |-> spelling_corrections,
     word_choice_errors |-> word_choice_errors,
     grammar_patterns |-> grammar_patterns,
     punctuation_patterns |-> punctuation_patterns,
     style_patterns |-> style_patterns]

(***************************************************************************)
(* error_detection.py: the eight detectors.                                *)
(***************************************************************************)
\* match.group(0)
Group0(t, span) == Slice(t, span[1], span[2])

detect_spelling_errors(self, text) ==
    Only({
        ConcatAll([w \in 1..Len(self.spelling_corrections) |->
            Only({ [k \in 1..Len(spans) |->
                       ErrorRecord("spelling", Group0(text, spans[k]), spans[k][1], spans[k][2],
                                   self.spelling_corrections[w][2],
                                   "'" \o Group0(text, spans[k]) \o "' should be '"
                                       \o self.spelling_corrections[w][2] \o "'",
                                   "medium", 9)] :
                   spans \in { FindIter(WordPattern(self.spelling_corrections[w][1]),
                                        text, tl) } })]) :
        tl \in { Lower(text) } })

\* text is the matched text; text_lower is text.lower()
GrammarSuggestionFor(text, text_lower) ==
    IF Contains(text_lower, "could of") \/ Contains(text_lower, "should of")
       \/ Contains(text_lower, "would of")
    THEN Replace(Replace(text, "of", "have"), "Of", "Have")
    ELSE IF Search(Compile("\\b(he|she|it)\\s+(are|were)\\b"), text_lower, text_lower) # <<>>
    THEN SubWord(text, "are", "is")
    ELSE IF Search(Compile("\\b(they|we|you)\\s+(is|was)\\b"), text_lower, text_lower) # <<>>
    THEN SubWord(text, "is", "are")
    ELSE text \o " [needs correction]"

generate_grammar_suggestion(text, pattern_info) == GrammarSuggestionFor(text, Lower(text))

detect_grammar_errors(self, text) ==
    Only({
        ConcatAll([p \in 1..Len(self.grammar_patterns) |->
            Only({ [k \in 1..Len(spans) |->
                       ErrorRecord("grammar", Group0(text, spans[k]), spans[k][1], spans[k][2],
                                   generate_grammar_suggestion(Group0(text, spans[k]),
                                                               self.grammar_patterns[p]),
                                   self.grammar_patterns[p].message \o ". "
                                       \o self.grammar_patterns[p].suggestion,
                                   self.grammar_patterns[p].severity, 8)] :
                   spans \in { FindIter(Compile(self.grammar_patterns[p].pattern),
                                        text, tl) } })]) :
        tl \in { Lower(text) } })

generate_punctuation_suggestion(text, pattern_info) ==
    IF MatchEnd(Compile("[.!?]{2,}"), text, text, 0) # -1
    THEN CharAt(text, 0)
    ELSE IF MatchEnd(Compile("[.!?,;:][a-zA-Z]"), text, text, 0) # -1
    THEN CharAt(text, 0) \o " " \o CharAt(text, 1)
    ELSE IF MatchEnd(Compile("\\s+[,;:]"), text, text, 0) # -1
    THEN Strip(text)
    ELSE text

\* the punctuation patterns are matched without re.IGNORECASE
detect_punctuation_errors(self, text) ==
    ConcatAll([p \in 1..Len(self.punctuation_patterns) |->
        Only({ [k \in 1..Len(spans) |->
                   ErrorRecord("punctuation", Group0(text, spans[k]), spans[k][1], spans[k][2],
                               generate_punctuation_suggestion(Group0(text, spans[k]),
                                                               self.punctuation_patterns[p]),
                               self.punctuation_patterns[p].message \o ". "
                                   \o self.punctuation_patterns[p].suggestion,
                               self.punctuation_patterns[p].severity, 8)] :
               spans \in { FindIter(Compile(self.punctuation_patterns[p].pattern),
                                    text, text) } })])

\* context is text[start:end].lower() for the window of 50 characters around
\* the word
ContextSuggestion(context, word, alternatives) ==
    IF word = "affect" /\ (Contains(context, "noun") \/ Contains(context, "result"))
    THEN "effect"
    ELSE IF word = "effect" /\ (Contains(context, "verb") \/ Contains(context, "influence"))
    THEN "affect"
    ELSE IF word = "than" /\ (Contains(context, "time") \/ Contains(context, "when"))
    THEN "then"
    ELSE IF word = "then" /\ (Contains(context, "comparison") \/ Contains(context, "more"))
    THEN "than"
    ELSE IF alternatives # <<>> THEN alternatives[1] ELSE word

get_context_based_suggestion(text, word, alternatives, position) ==
    ContextSuggestion(Lower(Slice(text, Max(0, position - 50),
                                  Min(Len(text), position + Len(word) + 50))),
                      word, alternatives)

\* spans are the word occurrences of the text, word_positions[word] those
\* whose lower-cased text is word
detect_word_choice_errors(self, text) ==
    Only({
        ConcatAll([w \in 1..Len(self.word_choice_errors) |->
            Only({ [k \in 1..Len(occ) |->
                       ErrorRecord("word_choice", Group0(text, occ[k]), occ[k][1], occ[k][2],
                                   get_context_based_suggestion(text, self.word_choice_errors[w][1],
                                       self.word_choice_errors[w][2], occ[k][1]),
                                   "'" \o Group0(text, occ[k])
                                       \o "' might be confused with similar words. Check context.",
                                   "medium", 6)] :
                   occ \in { SelectSeq(spans,
                                       LAMBDA sp : Lower(Group0(text, sp))
                                                       = self.word_choice_errors[w][1]) } })]) :
        spans \in { WordSpans(text) } })

\* text_lower is text.lower()
StyleSuggestionFor(text, text_lower) ==
    IF Contains(text_lower, "very very") THEN "extremely"
    ELSE IF Contains(text_lower, "in order to")
    THEN Replace(Replace(text, "in order to", "to"), "In order to", "To")
    ELSE IF Contains(text_lower, "due to the fact that")
    THEN Replace(Replace(text, "due to the fact that", "because"),
                 "Due to the fact that", "Because")
    ELSE text \o " [consider revision]"

generate_style_suggestion(text, pattern_info) == StyleSuggestionFor(text, Lower(text))

\* common_words of detect_word_repetition
common_words ==
    {"the", "a", "an", "and", "or", "but", "in", "on", "at", "to", "for",
     "of", "with", "by", "is", "are", "was", "were", "be", "been", "have",
     "has", "had", "do", "does", "did", "will", "would", "could", "should",
     "this", "that", "these", "those", "i", "you", "he", "she", "it", "we", "they"}

\* Counter(words)[word]
CountOf(words, word) == Cardinality({ k \in 1..Len(words) : words[k] = word })

\* words are the words of the lower-cased text, Counter(words) counts them in
\* the order of their first occurrence: the record for every word of more than
\* 4 letters, not a common word, that occurs more than 5 times
RepetitionRecords(text, tl, words) ==
    ConcatAll([w \in 1..Len(words) |->
        IF /\ Len(words[w]) > 4
           /\ words[w] \notin common_words
           /\ \A j \in 1..(w - 1) : words[j] # words[w]
           /\ CountOf(words, words[w]) > 5
           /\ Search(WordPattern(words[w]), text, tl) # <<>>
        THEN <<ErrorRecord("style", words[w],
                           Search(WordPattern(words[w]), text, tl)[1],
                           Search(WordPattern(words[w]), text, tl)[2],
                           "Use synonyms for variety",
                           "The word '" \o words[w] \o "' appears "
                               \o ToString(CountOf(words, words[w]))
                               \o " times. Consider using synonyms.",
                           "low", 6)>>
        ELSE <<>>])

detect_word_repetition(self, text) ==
    Only({ RepetitionRecords(text, Lower(text), [k \in 1..Len(spans) |->
                                                    Lower(Group0(text, spans[k]))]) :
           spans \in { WordSpans(text) } })

\* following_text = text[match.end():match.end()+10]; no "by" right after
detect_passive_voice(self, text) ==
    Only({ [k \in 1..Len(kept) |->
               ErrorRecord("style", Group0(text, kept[k]), kept[k][1], kept[k][2],
                           "Consider active voice",
                           "Consider rewriting in active voice for more direct expression.",
                           "low", 5)] :
           kept \in { SelectSeq(
               FindIter(Compile("\\b(is|are|was|were|be|been|being)\\s+\\w*ed\\b"),
                        text, Lower(text)),
               LAMBDA sp : MatchEnd(Compile("\\s+by\\b"),
                                    Slice(text, sp[2], sp[2] + 10),
                                    Lower(Slice(text, sp[2], sp[2] + 10)), 0) = -1) } })

detect_style_issues(self, text) ==
    Only({
        ConcatAll([p \in 1..Len(self.style_patterns) |->
            Only({ [k \in 1..Len(spans) |->
                       ErrorRecord("style", Group0(text, spans[k]), spans[k][1], spans[k][2],
                                   generate_style_suggestion(Group0(text, spans[k]),
                                                             self.style_patterns[p]),
                                   self.style_patterns[p].message \o ". "
                                       \o self.style_patterns[p].suggestion,
                                   self.style_patterns[p].severity, 7)] :
                   spans \in { FindIter(Compile(self.style_patterns[p].pattern), text, tl) } })]) :
        tl \in { Lower(text) } })
    \o detect_word_repetition(self, text)
    \o detect_passive_voice(self, text)

\* transition_words of detect_coherence_issues
coherence_transition_words ==
    <<"however", "therefore", "furthermore", "moreover", "consequently",
      "in addition", "similarly", "likewise", "in contrast", "on the other hand",
      "first", "second", "third", "finally", "in conclusion", "to summarize">>

\* the body of the loop over paragraphs[1:]: first_sentence is
\* paragraph.split('.')[0].lower(), start_pos is text.find(paragraph), the
\* first place the paragraph's text occurs
CoherenceRecord(paragraph, first_sentence, start_pos) ==
    IF /\ ~\E k \in 1..Len(coherence_transition_words) :
               Contains(first_sentence, coherence_transition_words[k])
       /\ Len(paragraph) > 50
       /\ start_pos # -1
    THEN <<ErrorRecord("coherence", Slice(first_sentence, 0, 50) \o "...",
                       start_pos, start_pos + Len(first_sentence),
                       "Add transition words",
                       "Consider adding transition words to improve paragraph flow.",
                       "low", 6)>>
    ELSE <<>>

detect_coherence_issues(self, text) ==
    Only({ ConcatAll([i \in 1..(Len(paragraphs) - 1) |->
                         CoherenceRecord(paragraphs[i + 1],
                                         Lower(SplitOn(paragraphs[i + 1], ".")[1]),
                                         Find(text, paragraphs[i + 1]))]) :
           paragraphs \in { StripNonEmpty(SplitOn(text, "\n\n")) } })

\* redundant_phrases of detect_redundancy_issues, without the \b around them
redundant_phrases ==
    <<"free gift", "future plans", "past history", "advance planning",
      "close proximity", "final outcome", "unexpected surprise", "true fact">>

\* redundancy_fixes of get_redundancy_suggestion
redundancy_fixes ==
    ("free gift" :> "gift") @@ ("future plans" :> "plans") @@
    ("past history" :> "history") @@ ("advance planning" :> "planning") @@
    ("close proximity" :> "proximity") @@ ("final outcome" :> "outcome") @@
    ("unexpected surprise" :> "surprise") @@ ("true fact" :> "fact")

get_redundancy_suggestion(phrase) ==
    IF Lower(phrase) \in DOMAIN redundancy_fixes THEN redundancy_fixes[Lower(phrase)]
    ELSE phrase

detect_redundancy_issues(self, text) ==
    Only({
        ConcatAll([p \in 1..Len(redundant_phrases) |->
            Only({ [k \in 1..Len(spans) |->
                       ErrorRecord("redundancy", Group0(text, spans[k]), spans[k][1], spans[k][2],
                                   get_redundancy_suggestion(Group0(text, spans[k])),
                                   "This phrase contains redundant words.",
                                   "low", 8)] :
                   spans \in { FindIter(WordPattern(redundant_phrases[p]), text, tl) } })]) :
        tl \in { Lower(text) } })

\* the body of the loop over the sentences: start_pos is text.find(sentence)
ClarityRecord(sentence, start_pos) ==
    IF Len(SplitWhitespace(sentence)) > 40 /\ start_pos # -1
    THEN <<ErrorRecord("clarity", Slice(sentence, 0, 50) \o "...",
                       start_pos, start_pos + Len(sentence),
                       "Break into shorter sentences",
                       "This sentence is very long and may be hard to follow.",
                       "medium", 7)>>
    ELSE <<>>

detect_clarity_issues(self, text) ==
    Only({ ConcatAll([i \in 1..Len(sentences) |->
                         ClarityRecord(sentences[i], Find(text, sentences[i]))]) :
           sentences \in { StripNonEmpty(SplitSentences(text, 0)) } })

(***************************************************************************)
(* error_detection.py: filter_overlapping_errors and the two sorts.        *)
(***************************************************************************)
\* order of the sort keys: x.get("start_pos", 0), and
\* (x.get("start_pos", 0), -x.get("confidence", 0))
KeyLess(a, b, key) ==
    \/ a.start_pos < b.start_pos
    \/ key = "start_confidence" /\ a.start_pos = b.start_pos /\ a.confidence > b.confidence

\* a stable sort (list.sort, sorted): the element at index k goes to the place
\* after every element that is less and every equal element that came before
StableSort(s, key) ==
    Only({ [r \in 1..Len(s) |-> s[CHOOSE k \in 1..Len(s) : place[k] = r]] :
           place \in { [k \in 1..Len(s) |->
                          1 + Cardinality({ j \in 1..Len(s) :
                                              \/ KeyLess(s[j], s[k], key)
                                              \/ ~KeyLess(s[k], s[j], key) /\ j < k })] } })

\* all_errors.sort(key=lambda x: x.get("start_pos", 0))
SortByStart(s) == StableSort(s, "start")

\* sorted(errors, key=lambda x: (x.get("start_pos", 0), -x.get("confidence", 0)))
SortByStartConf(s) == StableSort(s, "start_confidence")

\* "if start_pos >= last_end"
NoOverlapWithLast(error, last_end) == error.start_pos >= last_end

\* the comparison of the scan with a tie replacing too
ReplacesLastOnTie(error, last) == error.confidence >= last.confidence

ReplacesLastNever(error, last) == FALSE

\* the comparison of a scan that keeps the longer of two overlapping records
ReplacesLastIfLonger(error, last) ==
    error.end_pos - error.start_pos > last.end_pos - last.start_pos

\* "elif error.confidence > filtered[-1].confidence"
ReplacesLast(error, last) == error.confidence > last.confidence

\* the for loop of filter_overlapping_errors, from the i-th sorted error on
RECURSIVE FilterScan(_, _, _, _)
FilterScan(sorted_errors, i, acc, last_end) ==
    IF i > Len(sorted_errors) THEN acc
    ELSE IF NoOverlapWithLast(sorted_errors[i], last_end)
    THEN FilterScan(sorted_errors, i + 1, Append(acc, sorted_errors[i]),
                    sorted_errors[i].end_pos)
    ELSE IF ReplacesLast(sorted_errors[i], Last(acc))
    THEN FilterScan(sorted_errors, i + 1, Append(Front(acc), sorted_errors[i]),
                    sorted_errors[i].end_pos)
    ELSE FilterScan(sorted_errors, i + 1, acc, last_end)

\* the scan over the list as given, without the sort
filter_overlapping_errors_unsorted(errors) ==
    IF errors = <<>> THEN errors
    ELSE FilterScan(errors, 1, <<>>, -1)

filter_overlapping_errors(errors) ==
    IF errors = <<>> THEN errors
    ELSE FilterScan(SortByStartConf(errors), 1, <<>>, -1)

(***************************************************************************)
(* error_detection.py: detect_all_errors.                                  *)
(***************************************************************************)
detect_all_errors(self, text) ==
    filter_overlapping_errors(SortByStart(
        detect_spelling_errors(self, text)
        \o detect_grammar_errors(self, text)
        \o detect_punctuation_errors(self, text)
        \o detect_word_choice_errors(self, text)
        \o detect_style_issues(self, text)
        \o detect_coherence_issues(self, text)
        \o detect_redundancy_issues(self, text)
        \o detect_clarity_issues(self, text)))

(***************************************************************************)
(* essay_model.py: the features the rule-based scorers consume.  A ratio   *)
(* (a float in the code) is kept as its numerator and denominator.         *)
(***************************************************************************)
Ratio(num, den) == [num |-> num, den |-> den]

\* sum(1 for phrase in phrases if phrase in t)
CountIn(phrases, t) == Cardinality({ k \in 1..Len(phrases) : Contains(t, phrases[k]) })

\* any(phrase in t for phrase in phrases)
AnyIn(phrases, t) == \E k \in 1..Len(phrases) : Contains(t, phrases[k])

\* str.isalpha(), for the characters of the model
IsAlpha(w) == Len(w) > 0 /\ \A k \in 0..(Len(w) - 1) : IsLetter(CharAt(w, k))

\* [p.strip() for p in text.split('\n\n') if p.strip()]
Paragraphs(t) == StripNonEmpty(SplitOn(t, "\n\n"))

\* [s.strip() for s in re.split(r'[.!?]+', text) if s.strip()]
Sentences(t) == StripNonEmpty(SplitSentences(t, 0))

\* academic_words of count_academic_vocabulary
academic_words ==
    {"analyze", "evaluate", "demonstrate", "illustrate", "examine",
     "investigate", "establish", "determine", "significant", "substantial",
     "comprehensive", "fundamental", "essential", "crucial", "critical",
     "perspective", "approach", "methodology", "framework", "concept",
     "theory", "hypothesis", "evidence", "research", "study",
     "analysis", "conclusion", "argument", "thesis", "claim",
     "furthermore", "moreover", "however", "nevertheless", "consequently",
     "therefore", "thus", "hence", "accordingly", "subsequently"}

count_academic_vocabulary(words) ==
    Cardinality({ k \in 1..Len(words) : Lower(words[k]) \in academic_words })

\* transitions of count_transitions
model_transitions ==
    <<"first", "second", "third", "next", "then", "finally",
      "however", "furthermore", "moreover", "additionally",
      "in addition", "similarly", "likewise", "in contrast",
      "on the other hand", "meanwhile", "consequently",
      "therefore", "thus", "as a result", "in conclusion">>

count_transitions(text) == CountIn(model_transitions, Lower(text))

\* first_paragraph = text.split('\n')[0] if '\n' in text else text[:500]
detect_thesis(text) ==
    AnyIn(<<"argue", "claim", "believe", "suggest", "propose",
            "maintain", "assert", "contend", "demonstrate",
            "prove", "show", "will discuss", "will examine">>,
          Lower(IF Contains(text, "\n") THEN SplitOn(text, "\n")[1] ELSE Slice(text, 0, 500)))

analyze_structure(essay_text, paragraphs) ==
    IF paragraphs = <<>>
    THEN [has_introduction |-> FALSE, has_conclusion |-> FALSE,
          body_paragraph_count |-> 0, has_thesis |-> FALSE]
    ELSE [has_introduction |->
              AnyIn(<<"in this essay", "this essay will", "i will argue",
                      "the author suggests", "this paper", "the purpose of">>,
                    Lower(paragraphs[1])),
          has_conclusion |->
              AnyIn(<<"in conclusion", "to conclude", "in summary",
                      "therefore", "thus", "overall", "finally">>,
                    Lower(Last(paragraphs))),
          body_paragraph_count |-> Max(0, Len(paragraphs) - 2),
          has_thesis |-> detect_thesis(essay_text)]

\* AdvancedEssayScoringModel.analyze_essay_features; words, sentences and
\* paragraphs are its three lists
FeaturesOf(essay_text, words, sentences, paragraphs) ==
    [word_count |-> Len(words),
     sentence_count |-> Len(sentences),
     paragraph_count |-> Len(paragraphs),
     avg_words_per_sentence |-> Ratio(Len(words), Max(Len(sentences), 1)),
     avg_sentences_per_paragraph |-> Ratio(Len(sentences), Max(Len(paragraphs), 1)),
     unique_words |->
         Cardinality({ Lower(words[k]) : k \in { j \in 1..Len(words) : IsAlpha(words[j]) } }),
     vocabulary_diversity |->
         Ratio(Cardinality({ Lower(words[k]) :
                               k \in { j \in 1..Len(words) : IsAlpha(words[j]) } }),
               Max(Len(words), 1)),
     complex_sentence_ratio |->
         Ratio(Cardinality({ k \in 1..Len(sentences) :
                               Len(SplitWhitespace(sentences[k])) > 15 }),
               Max(Len(sentences), 1)),
     academic_vocabulary_count |-> count_academic_vocabulary(words),
     academic_vocabulary_ratio |-> Ratio(count_academic_vocabulary(words), Max(Len(words), 1)),
     transition_count |-> count_transitions(essay_text)]
    @@ analyze_structure(essay_text, paragraphs)

analyze_essay_features(essay_text) ==
    FeaturesOf(essay_text, SplitWhitespace(essay_text), Sentences(essay_text),
               Paragraphs(essay_text))

\* AdvancedEssayScoringModel.predict_scores: the five outputs of the network
\* (thousandths), scaled by 9 and shifted by 1, in millionths
predict_scores(predictions) ==
    [overall |-> predictions[1] * 9000 + 1000000,
     content |-> predictions[2] * 9000 + 1000000,
     organization |-> predictions[3] * 9000 + 1000000,
     language |-> predictions[4] * 9000 + 1000000,
     conventions |-> predictions[5] * 9000 + 1000000]

(***************************************************************************)
(* essay_inference.py.  The values a JSON document holds keep their Python *)
(* type; a call returns Ok(value) or Raise(exception).  A score (a float   *)
(* in the code) is an integer number of millionths: 6.0 is Tenths(60).     *)
(* The arithmetic here is exact where the code's is binary floating point: *)
(* a sum that lands exactly on a threshold of a comparison, or exactly     *)
(* half way between two roundings, can fall on the other side in the code  *)
(* (0.7 * 6.0 + 0.3 * 6.0 is 5.999..., round(8.05, 1) is 8.1 or 8.0 by the *)
(* float nearest to 8.05).  The difference is one feedback band or 0.1 of  *)
(* a score; it moves no score across 1.0 or 10.0.                          *)
(***************************************************************************)
PyStr(s) == [type |-> "str", value |-> s]
PyInt(n) == [type |-> "int", value |-> n]
PyList(items) == [type |-> "list", value |-> items]

\* bool(v)
Truthy(v) ==
    CASE v.type = "str" -> v.value # ""
      [] v.type = "int" -> v.value # 0
      [] v.type = "list" -> v.value # <<>>

\* dict.get(key, default)
DictGet(d, key, default) == IF key \in DOMAIN d THEN d[key] ELSE default

Ok(v) == [raised |-> FALSE, value |-> v]
Raise(exc, message) == [raised |-> TRUE, exc |-> exc, message |-> message]

Tenths(n) == n * 100000
Abs(x) == IF x < 0 THEN -x ELSE x

\* round(num / den, digits) as a number of 1/scale, scale = 10 ** digits; a
\* tie goes to the even neighbour
RoundRatio(num, den, scale) ==
    IF 2 * ((num * scale) % den) < den \/
       (2 * ((num * scale) % den) = den /\ ((num * scale) \div den) % 2 = 0)
    THEN (num * scale) \div den
    ELSE (num * scale) \div den + 1

\* round(x, 1) of a score
Round1(x) == Tenths(RoundRatio(x, Tenths(1), 1))

\* sep.join(parts[lo..hi])
RECURSIVE Join(_, _, _, _)
Join(parts, sep, lo, hi) ==
    IF lo > hi THEN ""
    ELSE IF lo = hi THEN parts[lo]
    ELSE Join(parts, sep, lo, (lo + hi) \div 2) \o sep
             \o Join(parts, sep, (lo + hi) \div 2 + 1, hi)

\* set(re.findall(r'\b\w+\b', t))
Keywords(t) ==
    Only({ { Slice(t, spans[k][1], spans[k][2]) : k \in 1..Len(spans) } :
           spans \in { WordSpans(t) } })

\* extract_basic_statistics once cleaned_text is known
StatsOf(essay_text, cleaned_text, word_count, sentence_count, paragraph_count) ==
    [word_count |-> word_count,
     sentence_count |-> sentence_count,
     paragraph_count |-> paragraph_count,
     character_count |-> Len(cleaned_text),
     character_count_no_spaces |->
         Cardinality({ k \in 0..(Len(cleaned_text) - 1) : CharAt(cleaned_text, k) # " " }),
     avg_words_per_sentence |-> RoundRatio(word_count, Max(sentence_count, 1), 10),
     avg_sentences_per_paragraph |-> RoundRatio(sentence_count, Max(paragraph_count, 1), 10),
     unique_words |-> Cardinality(Keywords(Lower(cleaned_text))),
     vocabulary_diversity |->
         RoundRatio(Cardinality(Keywords(Lower(cleaned_text))), Max(word_count, 1), 1000),
     reading_time_minutes |-> RoundRatio(word_count, 200, 10)]

\* essay_text.strip() raises for a value that is no str; re.sub(r'\s+', ' ', ...)
\* of the stripped text joins its whitespace-separated runs with one blank
extract_basic_statistics(essay_text) ==
    IF essay_text.type # "str"
    THEN Raise("AttributeError", "'" \o essay_text.type \o "' object has no attribute 'strip'")
    ELSE Ok(Only({ StatsOf(essay_text.value, cleaned_text, Len(WordSpans(cleaned_text)),
                           Len(Sentences(cleaned_text)), Len(Paragraphs(essay_text.value))) :
                   cleaned_text \in { Join(SplitWhitespace(essay_text.value), " ", 1,
                                           Len(SplitWhitespace(essay_text.value))) } }))

get_ml_scores_with_other_default(provided) ==
    IF provided.raised
    THEN [overall |-> Tenths(50), content |-> Tenths(50), organization |-> Tenths(50),
          language |-> Tenths(50), conventions |-> Tenths(50)]
    ELSE provided.value

\* the try/except of get_ml_scores around predict_essay_scores
get_ml_scores(provided) ==
    IF provided.raised
    THEN [overall |-> Tenths(60), content |-> Tenths(60), organization |-> Tenths(60),
          language |-> Tenths(60), conventions |-> Tenths(60)]
    ELSE provided.value

\* essay_text is a str here (the statistics step has passed); prompt_text.lower()
\* raises for a prompt that is no str
score_content_rule_based(essay_text, prompt_text, features) ==
    IF prompt_text.type # "str"
    THEN Raise("AttributeError", "'" \o prompt_text.type \o "' object has no attribute 'lower'")
    ELSE Ok(Only({
        Min(Tenths(50)
              + (IF features.word_count >= 300 THEN Tenths(10)
                 ELSE IF features.word_count >= 200 THEN Tenths(5)
                 ELSE IF features.word_count < 100 THEN -Tenths(10) ELSE 0)
              + Min(Tenths(5) * CountIn(<<"for example", "according to", "the text states",
                                          "evidence shows", "the author argues",
                                          "research shows", "studies indicate">>,
                                        Lower(essay_text)),
                    Tenths(20))
              + (IF features.has_thesis THEN Tenths(10) ELSE 0)
              + (Tenths(20) * Cardinality(prompt_keywords \cap Keywords(Lower(essay_text))))
                    \div Max(Cardinality(prompt_keywords), 1),
            Tenths(100)) :
        prompt_keywords \in { Keywords(Lower(prompt_text.value)) } }))

score_organization_rule_based(essay_text, features) ==
    Min(Tenths(50)
          + (IF features.paragraph_count >= 4 THEN Tenths(15)
             ELSE IF features.paragraph_count >= 3 THEN Tenths(10)
             ELSE IF features.paragraph_count < 2 THEN -Tenths(10) ELSE 0)
          + (IF features.has_introduction THEN Tenths(10) ELSE 0)
          + (IF features.has_conclusion THEN Tenths(10) ELSE 0)
          + Min(Tenths(3) * features.transition_count, Tenths(15))
          + (IF Len(SplitSentences(essay_text, 0)) > 3 THEN Tenths(5) ELSE 0),
        Tenths(100))

score_language_rule_based(essay_text, features) ==
    Min(Tenths(50)
          + (IF 10 * features.vocabulary_diversity.num > 7 * features.vocabulary_diversity.den
             THEN Tenths(15)
             ELSE IF 10 * features.vocabulary_diversity.num > 5 * features.vocabulary_diversity.den
             THEN Tenths(10)
             ELSE IF 10 * features.vocabulary_diversity.num < 3 * features.vocabulary_diversity.den
             THEN -Tenths(10) ELSE 0)
          + (IF /\ 12 * features.avg_words_per_sentence.den <= features.avg_words_per_sentence.num
                /\ features.avg_words_per_sentence.num <= 20 * features.avg_words_per_sentence.den
             THEN Tenths(10)
             ELSE IF features.avg_words_per_sentence.num > 25 * features.avg_words_per_sentence.den
             THEN -Tenths(5)
             ELSE IF features.avg_words_per_sentence.num < 8 * features.avg_words_per_sentence.den
             THEN -Tenths(5) ELSE 0)
          + (IF 10 * features.academic_vocabulary_ratio.num
                    >= 2 * features.academic_vocabulary_ratio.den
             THEN Tenths(20)
             ELSE (Tenths(100) * features.academic_vocabulary_ratio.num)
                      \div features.academic_vocabulary_ratio.den)
          + (IF 2 * features.complex_sentence_ratio.num >= features.complex_sentence_ratio.den
             THEN Tenths(10)
             ELSE (Tenths(20) * features.complex_sentence_ratio.num)
                      \div features.complex_sentence_ratio.den),
        Tenths(100))

\* errors is what detect_errors(essay_text) returned
score_conventions_rule_based(errors) ==
    Max(Tenths(80)
          - Tenths(5) * Cardinality({ k \in 1..Len(errors) : errors[k].severity = "high" })
          - Tenths(3) * Cardinality({ k \in 1..Len(errors) : errors[k].severity = "medium" })
          - Tenths(1) * Cardinality({ k \in 1..Len(errors) :
                                        errors[k].severity \notin {"high", "medium"} }),
        Tenths(10))

\* {"beginner": 1.1, "intermediate": 1.0, "advanced": 0.9}.get(level, 1.0), in tenths;
\* a list is no dictionary key
LevelFactor(level) ==
    IF level.type = "list" THEN Raise("TypeError", "unhashable type: 'list'")
    ELSE IF level.type # "str" THEN Ok(10)
    ELSE IF level.value = "beginner" THEN Ok(11)
    ELSE IF level.value = "advanced" THEN Ok(9)
    ELSE Ok(10)

\* every score multiplied by the level factor
RuleScoresOfAllScaled(content, organization, language, conventions, factor) ==
    Only({ s @@ [overall |-> (s.content + s.organization + s.language + s.conventions) \div 4] :
           s \in { [content |-> Min(Tenths(100), (content * factor) \div 10),
                    organization |-> Min(Tenths(100), (organization * factor) \div 10),
                    language |-> Min(Tenths(100), (language * factor) \div 10),
                    conventions |-> Min(Tenths(100), (conventions * factor) \div 10)] } })

\* min(10.0, score * level_factor) for the three adjusted scores
RuleScoresOf(content, organization, language, conventions, factor) ==
    Only({ s @@ [overall |-> (s.content + s.organization + s.language + s.conventions) \div 4] :
           s \in { [content |-> Min(Tenths(100), (content * factor) \div 10),
                    organization |-> Min(Tenths(100), (organization * factor) \div 10),
                    language |-> Min(Tenths(100), (language * factor) \div 10),
                    conventions |-> Min(Tenths(100), conventions)] } })

\* features is analyze_essay_features(essay_text), errors is detect_errors(essay_text)
get_rule_based_scores(essay_text, prompt_text, level, features, errors) ==
    IF score_content_rule_based(essay_text, prompt_text, features).raised
    THEN score_content_rule_based(essay_text, prompt_text, features)
    ELSE IF LevelFactor(level).raised THEN LevelFactor(level)
    ELSE Ok(RuleScoresOf(score_content_rule_based(essay_text, prompt_text, features).value,
                         score_organization_rule_based(essay_text, features),
                         score_language_rule_based(essay_text, features),
                         score_conventions_rule_based(errors),
                         LevelFactor(level).value))

aspects == <<"content", "organization", "language", "conventions">>

\* the weights stay at 0.4 / 0.6 from the first aspect on whose two scores
\* differ by more than 2.0
combine_scores(ml_scores, rule_scores, level) ==
    Only({ c @@ [overall |-> (c.content + c.organization + c.language + c.conventions) \div 4] :
           c \in { [a \in { aspects[k] : k \in 1..Len(aspects) } |->
                      IF \E j \in 1..Len(aspects) :
                             /\ j <= (CHOOSE k \in 1..Len(aspects) : aspects[k] = a)
                             /\ Abs(DictGet(ml_scores, aspects[j], Tenths(60))
                                      - DictGet(rule_scores, aspects[j], Tenths(60))) > Tenths(20)
                      THEN (DictGet(ml_scores, a, Tenths(60)) * 4
                              + DictGet(rule_scores, a, Tenths(60)) * 6) \div 10
                      ELSE (DictGet(ml_scores, a, Tenths(60)) * 7
                              + DictGet(rule_scores, a, Tenths(60)) * 3) \div 10] } })

\* the number of errors whose type is one of types
CountTypes(errors, types) == Cardinality({ k \in 1..Len(errors) : errors[k].type \in types })

adjust_scores_without_floor(scores, errors) ==
    Only({ [a EXCEPT !.overall = (a.content + a.organization + a.language + a.conventions) \div 4] :
           a \in { [scores EXCEPT
                      !.conventions =
                          IF CountTypes(errors, {"spelling", "grammar", "punctuation", "style"}) > 0
                          THEN @ - Min(150000 * CountTypes(errors, {"spelling", "grammar",
                                                                       "punctuation", "style"}),
                                           Tenths(25))
                          ELSE @,
                      !.language =
                          IF CountTypes(errors, {"style"}) > 3
                          THEN Max(@ - Min(Tenths(1) * CountTypes(errors, {"style"}), Tenths(10)),
                                   Tenths(10))
                          ELSE @] } })

\* the adjustment without the last step, the overall score left as it came
adjust_scores_keeping_overall(scores, errors) ==
    [scores EXCEPT
        !.conventions =
            IF CountTypes(errors, {"spelling", "grammar", "punctuation", "style"}) > 0
            THEN Max(@ - Min(150000 * CountTypes(errors, {"spelling", "grammar",
                                                         "punctuation", "style"}),
                             Tenths(25)),
                     Tenths(10))
            ELSE @,
        !.language =
            IF CountTypes(errors, {"style"}) > 3
            THEN Max(@ - Min(Tenths(1) * CountTypes(errors, {"style"}), Tenths(10)),
                     Tenths(10))
            ELSE @]

adjust_scores_for_errors(scores, errors) ==
    Only({ [a EXCEPT !.overall = (a.content + a.organization + a.language + a.conventions) \div 4] :
           a \in { [scores EXCEPT
                      !.conventions =
                          IF CountTypes(errors, {"spelling", "grammar", "punctuation", "style"}) > 0
                          THEN Max(@ - Min(150000 * CountTypes(errors, {"spelling", "grammar",
                                                                       "punctuation", "style"}),
                                           Tenths(25)),
                                   Tenths(10))
                          ELSE @,
                      !.language =
                          IF CountTypes(errors, {"style"}) > 3
                          THEN Max(@ - Min(Tenths(1) * CountTypes(errors, {"style"}), Tenths(10)),
                                   Tenths(10))
                          ELSE @] } })

(***************************************************************************)
(* Feedback, improvements, structure and grouping.  A feedback item keeps  *)
(* its category, type, severity and comment, an improvement its area,      *)
(* priority and number of tips.                                            *)
(***************************************************************************)
FeedbackItem(category, type, severity, comment) ==
    [category |-> category, type |-> type, severity |-> severity, comment |-> comment]

\* the three bands of the content, organization and language items
AspectFeedback(category, score, comments) ==
    IF score >= Tenths(75) THEN FeedbackItem(category, "positive", "low", comments[1])
    ELSE IF score >= Tenths(60) THEN FeedbackItem(category, "neutral", "medium", comments[2])
    ELSE FeedbackItem(category, "improvement", "high", comments[3])

generate_comprehensive_feedback(scores, stats, level, errors) ==
    << IF scores.overall >= Tenths(85)
       THEN FeedbackItem("Overall Assessment", "positive", "info",
                         "Excellent essay with strong performance across all areas.")
       ELSE IF scores.overall >= Tenths(70)
       THEN FeedbackItem("Overall Assessment", "positive", "info",
                         "Good essay with solid foundation and clear strengths.")
       ELSE IF scores.overall >= Tenths(55)
       THEN FeedbackItem("Overall Assessment", "neutral", "info",
                         "Developing essay with room for improvement in several areas.")
       ELSE FeedbackItem("Overall Assessment", "improvement", "warning",
                         "Essay needs significant development across multiple areas."),
       AspectFeedback("Content Development", scores.content,
                      <<"Strong content with good evidence and analysis.",
                        "Good content foundation with room for deeper development.",
                        "Content needs significant development and stronger evidence.">>),
       AspectFeedback("Organization", scores.organization,
                      <<"Well-organized with clear structure and good flow.",
                        "Good basic organization with opportunities for improvement.",
                        "Essay structure needs significant improvement.">>),
       AspectFeedback("Language Use", scores.language,
                      <<"Sophisticated language with good variety and precision.",
                        "Good language use with room for more sophistication.",
                        "Language use needs development for clarity and variety.">>),
       IF scores.conventions >= Tenths(80) /\ Len(errors) <= 2
       THEN FeedbackItem("Writing Conventions", "positive", "low",
                         "Excellent command of writing conventions with minimal errors.")
       ELSE IF scores.conventions >= Tenths(65)
       THEN FeedbackItem("Writing Conventions", "neutral", "medium",
                         "Good conventions with " \o ToString(Len(errors)) \o " errors detected.")
       ELSE FeedbackItem("Writing Conventions", "improvement", "high",
                         "Multiple convention errors detected (" \o ToString(Len(errors))
                             \o " total).") >>
    \o (IF level.type = "str" /\ level.value = "advanced" /\ scores.overall < Tenths(70)
        THEN <<FeedbackItem("Advanced Level Expectations", "improvement", "medium",
                            "For advanced level, higher sophistication is expected.")>>
        ELSE IF level.type = "str" /\ level.value = "beginner" /\ scores.overall >= Tenths(70)
        THEN <<FeedbackItem("Beginner Level Achievement", "positive", "info",
                            "Excellent work for beginner level! Consider advancing to intermediate.")>>
        ELSE <<>>)

\* every aspect has five tips; advanced adds three for content and language,
\* beginner keeps the first three
get_improvement_for_aspect(aspect, score, priority, level) ==
    [area |-> CASE aspect = "content" -> "Content Development"
                [] aspect = "organization" -> "Essay Organization"
                [] aspect = "language" -> "Language and Style"
                [] aspect = "conventions" -> "Writing Conventions",
     priority |-> priority,
     tips |-> IF level.type = "str" /\ level.value = "advanced"
                    /\ aspect \in {"content", "language"} THEN 8
              ELSE IF level.type = "str" /\ level.value = "beginner" THEN 3
              ELSE 5]

\* max(error_counts.items(), key=...) is the first type, in order of first
\* appearance, with the largest count; the types without an entry give None
get_error_based_improvement(errors) ==
    IF errors = <<>> THEN <<>>
    ELSE Only({ IF error_type \notin {"spelling", "grammar", "punctuation", "style"} THEN <<>>
                ELSE << [area |-> CASE error_type = "spelling" -> "Spelling Accuracy"
                                    [] error_type = "grammar" -> "Grammar Accuracy"
                                    [] error_type = "punctuation" -> "Punctuation Accuracy"
                                    [] error_type = "style" -> "Writing Style",
                         priority |-> IF CountTypes(errors, {error_type}) > 5
                                      THEN "high" ELSE "medium",
                         tips |-> 4] >> :
                error_type \in { errors[MinOf({ k \in 1..Len(errors) :
                                     \A j \in 1..Len(errors) :
                                         CountTypes(errors, {errors[j].type})
                                             <= CountTypes(errors, {errors[k].type}) })].type } })

\* the aspect loop with every comparison taken as "at most"
AspectImprovementsAtMost(scores, level) ==
    ConcatAll([k \in 1..Len(aspects) |->
        IF scores[aspects[k]] <= Tenths(80)
        THEN <<get_improvement_for_aspect(aspects[k], scores[aspects[k]],
                   IF scores[aspects[k]] <= Tenths(60) THEN "high"
                   ELSE IF scores[aspects[k]] <= Tenths(70) THEN "medium" ELSE "low",
                   level)>>
        ELSE <<>>])

\* the improvements of the aspects, in the order of scores.items()
AspectImprovements(scores, level) ==
    ConcatAll([k \in 1..Len(aspects) |->
        IF scores[aspects[k]] < Tenths(80)
        THEN <<get_improvement_for_aspect(aspects[k], scores[aspects[k]],
                   IF scores[aspects[k]] < Tenths(60) THEN "high"
                   ELSE IF scores[aspects[k]] < Tenths(70) THEN "medium" ELSE "low",
                   level)>>
        ELSE <<>>])

\* the suggestions without the generic item of lines 662-673
generate_improvement_suggestions_no_generic(scores, errors, level) ==
    AspectImprovements(scores, level) \o get_error_based_improvement(errors)

generate_improvement_suggestions(scores, errors, level) ==
    IF AspectImprovements(scores, level) \o get_error_based_improvement(errors) = <<>>
    THEN <<[area |-> "General Writing Development", priority |-> "medium", tips |-> 4]>>
    ELSE AspectImprovements(scores, level) \o get_error_based_improvement(errors)

\* the score with two paragraphs counted as too few
calculate_structure_score_two_is_few(has_intro, has_conclusion, has_thesis, para_count, transitions) ==
    Min(Tenths(50)
          + (IF has_intro THEN Tenths(10) ELSE 0)
          + (IF has_conclusion THEN Tenths(10) ELSE 0)
          + (IF has_thesis THEN Tenths(10) ELSE 0)
          + (IF para_count >= 4 THEN Tenths(10)
             ELSE IF para_count >= 3 THEN Tenths(5)
             ELSE -Tenths(10))
          + (IF transitions >= 3 THEN Tenths(10)
             ELSE IF transitions >= 1 THEN Tenths(5) ELSE 0),
        Tenths(100))

calculate_structure_score(has_intro, has_conclusion, has_thesis, para_count, transitions) ==
    Min(Tenths(50)
          + (IF has_intro THEN Tenths(10) ELSE 0)
          + (IF has_conclusion THEN Tenths(10) ELSE 0)
          + (IF has_thesis THEN Tenths(10) ELSE 0)
          + (IF para_count >= 4 THEN Tenths(10)
             ELSE IF para_count >= 3 THEN Tenths(5)
             ELSE IF para_count < 2 THEN -Tenths(10) ELSE 0)
          + (IF transitions >= 3 THEN Tenths(10)
             ELSE IF transitions >= 1 THEN Tenths(5) ELSE 0),
        Tenths(100))

\* analyze_essay_structure once its flags and counts are known
StructureOf(paragraphs, has_introduction, has_conclusion, thesis_detected, transition_count) ==
    [has_introduction |-> has_introduction,
     has_conclusion |-> has_conclusion,
     thesis_detected |-> thesis_detected,
     body_paragraphs |-> IF has_introduction /\ has_conclusion
                         THEN Max(0, Len(paragraphs) - 2) ELSE Max(0, Len(paragraphs) - 1),
     total_paragraphs |-> Len(paragraphs),
     transition_count |-> transition_count,
     avg_paragraph_length |->
         Ratio(Len(ConcatAll([k \in 1..Len(paragraphs) |-> SplitWhitespace(paragraphs[k])])),
               Max(Len(paragraphs), 1)),
     structure_score |-> calculate_structure_score(has_introduction, has_conclusion,
                             thesis_detected, Len(paragraphs), transition_count)]

analyze_essay_structure(essay_text) ==
    Only({ StructureOf(paragraphs,
               paragraphs # <<>> /\
                   (\/ AnyIn(<<"in this essay", "this essay will", "i will argue",
                               "the author suggests", "this paper", "the purpose">>,
                             Lower(paragraphs[1]))
                    \/ Len(paragraphs[1]) > 100),
               paragraphs # <<>> /\
                   (\/ AnyIn(<<"in conclusion", "to conclude", "in summary",
                               "therefore", "thus", "overall", "finally">>,
                             Lower(Last(paragraphs)))
                    \/ Len(Last(paragraphs)) > 50),
               paragraphs # <<>> /\
                   AnyIn(<<"argue", "claim", "believe", "suggest", "propose",
                           "maintain", "assert", "contend", "demonstrate">>,
                         Lower(paragraphs[1])),
               CountIn(Front(model_transitions), Lower(essay_text))) :
           paragraphs \in { Paragraphs(essay_text) } })

group_errors_by_type(errors) ==
    [type \in {"spelling", "grammar", "punctuation", "word_choice",
               "style", "coherence", "redundancy", "clarity"} |->
        SelectSeq(errors, LAMBDA error : error.type = type)]

\* the result analyze_essay_comprehensive compiles; the reading of the clock
\* is left out of timestamp
CompileAnalysis(adjusted_scores, feedback, improvements, structure_analysis, basic_stats, detected_errors, grouped_errors, level) ==
    [overall_score |-> Round1(adjusted_scores.overall),
     detailed_scores |-> [content |-> Round1(adjusted_scores.content),
                          organization |-> Round1(adjusted_scores.organization),
                          language |-> Round1(adjusted_scores.language),
                          conventions |-> Round1(adjusted_scores.conventions)],
     feedback |-> feedback,
     improvements |-> improvements,
     structure_analysis |-> structure_analysis,
     statistics |-> basic_stats,
     errors |-> detected_errors,
     grouped_errors |-> grouped_errors,
     error_count |-> Len(detected_errors),
     level |-> level,
     analysis_method |-> "comprehensive_ml_rule_hybrid",
     timestamp |-> "isoformat"]

FallbackBaseScoreAbove300(word_count) ==
    IF word_count > 300 THEN Tenths(70)
    ELSE IF word_count < 150 THEN Tenths(50)
    ELSE Tenths(60)

\* the coarse score of fallback_analysis
FallbackBaseScore(word_count) ==
    IF word_count >= 300 THEN Tenths(70)
    ELSE IF word_count < 150 THEN Tenths(50)
    ELSE Tenths(60)

\* extract_basic_statistics is called outside any try: what it raises leaves
\* fallback_analysis
fallback_analysis(essay_text, prompt_text, level) ==
    IF extract_basic_statistics(essay_text).raised THEN extract_basic_statistics(essay_text)
    ELSE Ok(Only({
        [overall_score |-> FallbackBaseScore(stats.word_count),
         detailed_scores |-> [overall |-> FallbackBaseScore(stats.word_count),
                              content |-> FallbackBaseScore(stats.word_count),
                              organization |-> FallbackBaseScore(stats.word_count),
                              language |-> FallbackBaseScore(stats.word_count),
                              conventions |-> FallbackBaseScore(stats.word_count)],
         feedback |-> <<FeedbackItem("General", "info", "info",
                                    "Basic analysis completed. For detailed feedback, please try again.")>>,
         improvements |-> <<[area |-> "General Writing", priority |-> "medium", tips |-> 3]>>,
         structure_analysis |-> [basic_structure |-> TRUE],
         statistics |-> stats,
         errors |-> <<>>,
         grouped_errors |-> <<>>,
         error_count |-> 0,
         level |-> level,
         analysis_method |-> "fallback",
         timestamp |-> "isoformat"] :
        stats \in { extract_basic_statistics(essay_text).value } }))

(***************************************************************************)
(* The resolver on its own: a candidate list is assembled record by        *)
(* record and handed to filter_overlapping_errors.                         *)
(***************************************************************************)
\* confidence each detector gives its records (tenths)
DetectorConfidence ==
    [spelling |-> 9, grammar |-> 8, word_choice |-> 6, coherence |-> 6]

CandTypes == {"spelling", "grammar", "word_choice", "coherence"}

\* a candidate as a detector builds it; only the coherence detector can give
\* a record of length zero (an empty first sentence)
Candidates ==
    { ErrorRecord(t, "x", s, e, "y", "z", "medium", DetectorConfidence[t]) :
        <<t, s, e>> \in { w \in CandTypes \X (0..MaxPos) \X (0..MaxPos) :
                            \/ w[2] < w[3]
                            \/ w[2] = w[3] /\ w[1] = "coherence" } }

\* what standard input holds when it is no JSON document
TextInput(text) == [kind |-> "text", text |-> text]

IdleFilter == fpc = "idle" /\ cands = <<>> /\ filtered = <<>>

IdleDetect ==
    /\ error_detector = None
    /\ dpc = "idle"
    /\ dtext = ""
    /\ nfrag = 0
    /\ first_call = None
    /\ last_call = None

IdleMain ==
    /\ pc = "idle"
    /\ argv = <<>>
    /\ stdin = TextInput("")
    /\ stdout = <<>>
    /\ exit_code = <<>>
    /\ essay_model = None
    /\ comprehensive_analyzer = None
    /\ frame = [exc |-> None]

IdleAdjust ==
    /\ given_scores = None
    /\ given_errors = <<>>
    /\ returned = None
    /\ returned_before = None

IdleThreads ==
    /\ tstack = <<>>
    /\ tgot = <<>>
    /\ heap = <<>>
    /\ singletons = None
    /\ networks = 0

IdleSynth ==
    /\ the_scores = None
    /\ the_level = None
    /\ the_errors = <<>>
    /\ feedback_items = <<>>
    /\ feedback_items_before = <<>>
    /\ improvement_items = <<>>

IdleCombine ==
    /\ ml_in = None
    /\ rule_in = None
    /\ loop_at = 0
    /\ ml_weight = 0
    /\ rule_weight = 0
    /\ weights_used = <<>>
    /\ combined = <<>>

IdleStructure ==
    /\ struct_call = None
    /\ struct_result = None

IdleRules ==
    /\ rules_call = None
    /\ rules_result = None

IdleGrammar ==
    /\ gram_text = ""
    /\ gram_errors = None

InitFilter ==
    /\ fpc = "build"
    /\ cands = <<>>
    /\ filtered = <<>>
    /\ IdleDetect
    /\ IdleGrammar
    /\ IdleRules
    /\ IdleStructure
    /\ IdleCombine
    /\ IdleMain
    /\ IdleAdjust
    /\ IdleThreads
    /\ IdleSynth

AddCandidate ==
    /\ fpc = "build"
    /\ Len(cands) < MaxCands
    /\ \E c \in Candidates : cands' = Append(cands, c)
    /\ UNCHANGED <<fpc, filtered, detectVars, mainVars, adjustVars, threadVars, synthVars, combineVars, structureVars, rulesVars, grammarVars>>

CallFilter ==
    /\ fpc = "build"
    /\ filtered' = filter_overlapping_errors(cands)
    /\ fpc' = "done"
    /\ UNCHANGED <<cands, detectVars, mainVars, adjustVars, threadVars, synthVars, combineVars, structureVars, rulesVars, grammarVars>>

NextFilter == AddCandidate \/ CallFilter

SpecFilter == InitFilter /\ [][NextFilter]_vars

(***************************************************************************)
(* Detection through the module-level entry point: a text is composed, *)
(* detect_errors is called on it, then on other texts, then on it again.  *)
(***************************************************************************)
\* the pieces the texts are made of
Fragments ==
    { ". The quick brown dog jumps over the lazy small cat now\n\n",
      "He cant go then.\n\n",
      "He are happy. " }

DetectorAfterCallConsumesRules(self, t) == [self EXCEPT !.grammar_patterns = <<>>]

\* detect_all_errors and the detectors only read self
DetectorAfterCall(self, t) == self

\* get_error_detector: the instance, created on first use; spacy.load either
\* succeeds or raises OSError, which __init__ catches
get_error_detector(nlp_available) ==
    IF error_detector = None THEN AdvancedErrorDetector(nlp_available) ELSE error_detector

\* detect_errors(t), the call and its effect on the singleton
DetectErrors(t) ==
    \E nlp_available \in (IF error_detector = None THEN BOOLEAN
                           ELSE {error_detector.nlp_available}) :
        LET detector == get_error_detector(nlp_available) IN
        /\ last_call' = [text |-> t, errors |-> detect_all_errors(detector, t)]
        /\ error_detector' = DetectorAfterCall(detector, t)

InitDetect ==
    /\ error_detector = None
    /\ dpc = "compose"
    /\ dtext = ""
    /\ nfrag = 0
    /\ first_call = None
    /\ last_call = None
    /\ IdleFilter
    /\ IdleGrammar
    /\ IdleRules
    /\ IdleStructure
    /\ IdleCombine
    /\ IdleMain
    /\ IdleAdjust
    /\ IdleThreads
    /\ IdleSynth

AppendFragment ==
    /\ dpc = "compose"
    /\ nfrag < MaxFragments
    /\ \E f \in Fragments : dtext' = dtext \o f
    /\ nfrag' = nfrag + 1
    /\ UNCHANGED <<error_detector, dpc, first_call, last_call, filterVars, mainVars, adjustVars, threadVars, synthVars, combineVars, structureVars, rulesVars, grammarVars>>

FirstCall ==
    /\ dpc = "compose"
    /\ DetectErrors(dtext)
    /\ first_call' = last_call'
    /\ dpc' = "between"
    /\ UNCHANGED <<dtext, nfrag, filterVars, mainVars, adjustVars, threadVars, synthVars, combineVars, structureVars, rulesVars, grammarVars>>

OtherCall ==
    /\ dpc = "between"
    /\ \E f \in Fragments : DetectErrors(f)
    /\ UNCHANGED <<dpc, dtext, nfrag, first_call, filterVars, mainVars, adjustVars, threadVars, synthVars, combineVars, structureVars, rulesVars, grammarVars>>

SecondCall ==
    /\ dpc = "between"
    /\ DetectErrors(dtext)
    /\ dpc' = "done"
    /\ UNCHANGED <<dtext, nfrag, first_call, filterVars, mainVars, adjustVars, threadVars, synthVars, combineVars, structureVars, rulesVars, grammarVars>>

NextDetect == AppendFragment \/ FirstCall \/ OtherCall \/ SecondCall

SpecDetect == InitDetect /\ [][NextDetect]_vars

(***************************************************************************)
(* The command (main of essay_inference.py): one run of the process reads  *)
(* a request from standard input, runs the comprehensive analysis step by  *)
(* step and prints its result, or prints an error document.                *)
(***************************************************************************)
\* s repeated n times
RECURSIVE Repeat(_, _)
Repeat(s, n) ==
    IF n = 0 THEN "" ELSE IF n = 1 THEN s
    ELSE Repeat(s, n \div 2) \o Repeat(s, n - n \div 2)

\* a JSON document on standard input, kept as the value json.loads gives for it
JsonInput(value) == [kind |-> "json", value |-> value]
PyDict(fields) == [type |-> "dict", value |-> fields]

ShortEssay == "I cant beleive we dont have time."
ErrorEssay == Repeat("He are happy. ", 14)
ShortPrompt == PyStr("Do we have time")

\* the command lines and inputs of the runs
Commands ==
    << [argv |-> <<"essay_inference.py", "--test">>, stdin |-> TextInput("")],
       [argv |-> <<"essay_inference.py">>, stdin |-> TextInput("")],
       [argv |-> <<"essay_inference.py">>, stdin |-> TextInput(" \n")],
       [argv |-> <<"essay_inference.py">>, stdin |-> TextInput("{\"essay\": ")],
       [argv |-> <<"essay_inference.py">>, stdin |-> JsonInput(PyList(<<>>))],
       [argv |-> <<"essay_inference.py">>,
        stdin |-> JsonInput(PyDict([prompt |-> ShortPrompt]))],
       [argv |-> <<"essay_inference.py">>,
        stdin |-> JsonInput(PyDict([essay |-> PyStr(""), prompt |-> ShortPrompt]))],
       [argv |-> <<"essay_inference.py">>,
        stdin |-> JsonInput(PyDict([essay |-> PyStr(ShortEssay)]))],
       [argv |-> <<"essay_inference.py">>,
        stdin |-> JsonInput(PyDict([essay |-> PyStr(ShortEssay), prompt |-> PyStr("")]))],
       [argv |-> <<"essay_inference.py">>,
        stdin |-> JsonInput(PyDict([essay |-> PyStr(ShortEssay), prompt |-> ShortPrompt]))],
       [argv |-> <<"essay_inference.py">>,
        stdin |-> JsonInput(PyDict([essay |-> PyStr(ShortEssay), prompt |-> ShortPrompt,
                                    level |-> PyStr("beginner")]))],
       [argv |-> <<"essay_inference.py">>,
        stdin |-> JsonInput(PyDict([essay |-> PyStr(ShortEssay), prompt |-> ShortPrompt,
                                    level |-> PyStr("advanced")]))],
       [argv |-> <<"essay_inference.py">>,
        stdin |-> JsonInput(PyDict([essay |-> PyStr(ErrorEssay), prompt |-> ShortPrompt,
                                    level |-> PyStr("intermediate")]))],
       [argv |-> <<"essay_inference.py">>,
        stdin |-> JsonInput(PyDict([essay |-> PyInt(123), prompt |-> ShortPrompt]))],
       [argv |-> <<"essay_inference.py">>,
        stdin |-> JsonInput(PyDict([essay |-> PyStr(Repeat("word ", 300)),
                                    prompt |-> PyInt(5)]))],
       [argv |-> <<"essay_inference.py">>,
        stdin |-> JsonInput(PyDict([essay |-> PyStr(Repeat("word ", 150)),
                                    prompt |-> PyInt(5)]))],
       [argv |-> <<"essay_inference.py">>,
        stdin |-> JsonInput(PyDict([essay |-> PyStr(ShortEssay), prompt |-> ShortPrompt,
                                    level |-> PyList(<<PyStr("advanced")>>)]))] >>

\* what predict_essay_scores does in a run: it raises, while the network is
\* built or after, or the network answers with five outputs (thousandths).
\* The heads build_advanced_model gives the network are sigmoids, with
\* outputs between 0 and 1; the last two answers are those of a provider
\* that breaks this contract.
ProviderAnswers ==
    << [raises |-> TRUE, built |-> FALSE],
       [raises |-> TRUE, built |-> TRUE],
       [raises |-> FALSE, built |-> TRUE, predictions |-> <<0, 0, 0, 0, 0>>],
       [raises |-> FALSE, built |-> TRUE, predictions |-> <<500, 600, 400, 500, 900>>],
       [raises |-> FALSE, built |-> TRUE, predictions |-> <<1000, 1000, 1000, 1000, 1000>>],
       [raises |-> FALSE, built |-> TRUE, predictions |-> <<2000, 2000, 2000, 2000, 2000>>],
       [raises |-> FALSE, built |-> TRUE,
        predictions |-> <<-1000, -1000, -1000, -1000, -1000>>] >>

predict_essay_scores(answer) ==
    IF answer.raises THEN Raise("RuntimeError", "prediction failed")
    ELSE Ok(predict_scores(answer.predictions))

ReadRequestNoPromptCheck(input) ==
    IF input.kind = "text" /\ Strip(input.text) = ""
    THEN Raise("ValueError", "No input data provided")
    ELSE IF input.kind = "text" THEN Raise("JSONDecodeError", "Expecting value")
    ELSE IF input.value.type # "dict"
    THEN Raise("AttributeError", "'" \o input.value.type \o "' object has no attribute 'get'")
    ELSE IF ~Truthy(DictGet(input.value.value, "essay", PyStr("")))
    THEN Raise("ValueError", "Essay text is required")
    ELSE Ok([essay |-> DictGet(input.value.value, "essay", PyStr("")),
             prompt |-> DictGet(input.value.value, "prompt", PyStr("")),
             level |-> DictGet(input.value.value, "level", PyStr("intermediate"))])

\* main from sys.stdin.read() to the two checks: the essay, prompt and level
\* of the request, or what is raised
ReadRequest(input) ==
    IF input.kind = "text" /\ Strip(input.text) = ""
    THEN Raise("ValueError", "No input data provided")
    ELSE IF input.kind = "text" THEN Raise("JSONDecodeError", "Expecting value")
    ELSE IF input.value.type # "dict"
    THEN Raise("AttributeError", "'" \o input.value.type \o "' object has no attribute 'get'")
    ELSE IF ~Truthy(DictGet(input.value.value, "essay", PyStr("")))
    THEN Raise("ValueError", "Essay text is required")
    ELSE IF ~Truthy(DictGet(input.value.value, "prompt", PyStr("")))
    THEN Raise("ValueError", "Prompt text is required")
    ELSE Ok([essay |-> DictGet(input.value.value, "essay", PyStr("")),
             prompt |-> DictGet(input.value.value, "prompt", PyStr("")),
             level |-> DictGet(input.value.value, "level", PyStr("intermediate"))])

\* print(...) of a document
Printed(kind, doc) == [kind |-> kind, doc |-> doc]

InitMain ==
    /\ \E k \in 1..Len(Commands) : argv = Commands[k].argv /\ stdin = Commands[k].stdin
    /\ pc = "main"
    /\ stdout = <<>>
    /\ exit_code = <<>>
    /\ essay_model = None
    /\ comprehensive_analyzer = None
    /\ frame = [exc |-> None]
    /\ IdleFilter
    /\ IdleGrammar
    /\ IdleRules
    /\ IdleStructure
    /\ IdleCombine
    /\ IdleDetect
    /\ IdleAdjust
    /\ IdleThreads
    /\ IdleSynth

\* if len(sys.argv) > 1 and sys.argv[1] == "--test"
TestFlag == Len(argv) > 1 /\ argv[2] = "--test"

TestMode ==
    /\ pc = "main"
    /\ TestFlag
    /\ stdout' = Append(stdout, Printed("text", "ML_MODEL_READY"))
    /\ exit_code' = <<0>>
    /\ pc' = "exited"
    /\ UNCHANGED <<argv, stdin, essay_model, comprehensive_analyzer, frame,
                   filterVars, detectVars, adjustVars, threadVars, synthVars, combineVars, structureVars, rulesVars, grammarVars>>

\* a step of the run leaves r: what it raised goes to the handler at
\* handler, its value is bound to the local name and the run goes on at next
StepResult(r, name, next, handler) ==
    IF r.raised
    THEN pc' = handler /\ frame' = [exc |-> r] @@ frame
    ELSE pc' = next /\ frame' = (name :> r.value) @@ frame

ReadInput ==
    /\ pc = "main"
    /\ ~TestFlag
    /\ IF ReadRequest(stdin).raised
       THEN pc' = "except" /\ frame' = [exc |-> ReadRequest(stdin)] @@ frame
       ELSE pc' = "get_analyzer" /\ frame' = ReadRequest(stdin).value @@ frame
    /\ UNCHANGED <<argv, stdin, stdout, exit_code, essay_model, comprehensive_analyzer,
                   filterVars, detectVars, adjustVars, threadVars, synthVars, combineVars, structureVars, rulesVars, grammarVars>>

\* get_comprehensive_analyzer and ComprehensiveEssayAnalyzer.__init__: the
\* tokenizer of the essay model loads or BertTokenizer.from_pretrained raises
GetAnalyzer ==
    /\ pc = "get_analyzer"
    /\ \E tokenizer_loads \in BOOLEAN, nlp_available \in BOOLEAN :
          IF tokenizer_loads
          THEN /\ essay_model' = (IF essay_model = None THEN [built |-> FALSE] ELSE essay_model)
               /\ error_detector' = get_error_detector(nlp_available)
               /\ comprehensive_analyzer' =
                      (IF comprehensive_analyzer = None THEN [initialized |-> TRUE]
                       ELSE comprehensive_analyzer)
               /\ pc' = "statistics"
               /\ UNCHANGED frame
          ELSE /\ pc' = "except"
               /\ frame' = [exc |-> Raise("OSError", "can't load tokenizer")] @@ frame
               /\ UNCHANGED <<essay_model, error_detector, comprehensive_analyzer>>
    /\ UNCHANGED <<argv, stdin, stdout, exit_code, filterVars, callVars, adjustVars, threadVars, synthVars, combineVars, structureVars, rulesVars, grammarVars>>

\* 1. basic_stats = self.extract_basic_statistics(essay_text)
Statistics ==
    /\ pc = "statistics"
    /\ StepResult(extract_basic_statistics(frame.essay), "basic_stats", "ml_scores", "fallback")
    /\ UNCHANGED <<argv, stdin, stdout, exit_code, essay_model, comprehensive_analyzer,
                   filterVars, detectVars, adjustVars, threadVars, synthVars, combineVars, structureVars, rulesVars, grammarVars>>

\* 2. ml_scores = self.get_ml_scores(essay_text)
MlScores ==
    /\ pc = "ml_scores"
    /\ \E k \in 1..Len(ProviderAnswers) :
          /\ frame' = [provided |-> predict_essay_scores(ProviderAnswers[k]),
                       ml_scores |-> get_ml_scores(predict_essay_scores(ProviderAnswers[k]))]
                          @@ frame
          /\ essay_model' = [essay_model EXCEPT !.built = @ \/ ProviderAnswers[k].built]
    /\ pc' = "rule_scores"
    /\ UNCHANGED <<argv, stdin, stdout, exit_code, comprehensive_analyzer,
                   filterVars, detectVars, adjustVars, threadVars, synthVars, combineVars, structureVars, rulesVars, grammarVars>>

\* 3. rule_scores = self.get_rule_based_scores(essay_text, prompt_text, level)
RuleScores ==
    /\ pc = "rule_scores"
    /\ StepResult(get_rule_based_scores(frame.essay.value, frame.prompt, frame.level,
                      analyze_essay_features(frame.essay.value),
                      detect_all_errors(error_detector, frame.essay.value)),
                  "rule_scores", "combine", "fallback")
    /\ error_detector' = IF frame.prompt.type = "str"
                         THEN DetectorAfterCall(error_detector, frame.essay.value)
                         ELSE error_detector
    /\ UNCHANGED <<argv, stdin, stdout, exit_code, essay_model, comprehensive_analyzer,
                   filterVars, callVars, adjustVars, threadVars, synthVars, combineVars, structureVars, rulesVars, grammarVars>>

\* 4. final_scores = self.combine_scores(ml_scores, rule_scores, level)
Combine ==
    /\ pc = "combine"
    /\ frame' = [final_scores |-> combine_scores(frame.ml_scores, frame.rule_scores,
                                                 frame.level)] @@ frame
    /\ pc' = "detect"
    /\ UNCHANGED <<argv, stdin, stdout, exit_code, essay_model, comprehensive_analyzer,
                   filterVars, detectVars, adjustVars, threadVars, synthVars, combineVars, structureVars, rulesVars, grammarVars>>

\* 5. detected_errors = detect_errors(essay_text)
Detect ==
    /\ pc = "detect"
    /\ frame' = [detected_errors |-> detect_all_errors(error_detector, frame.essay.value)]
                    @@ frame
    /\ error_detector' = DetectorAfterCall(error_detector, frame.essay.value)
    /\ pc' = "adjust"
    /\ UNCHANGED <<argv, stdin, stdout, exit_code, essay_model, comprehensive_analyzer,
                   filterVars, callVars, adjustVars, threadVars, synthVars, combineVars, structureVars, rulesVars, grammarVars>>

\* 6. adjusted_scores = self.adjust_scores_for_errors(final_scores, detected_errors)
Adjust ==
    /\ pc = "adjust"
    /\ frame' = [adjusted_scores |-> adjust_scores_for_errors(frame.final_scores,
                                                              frame.detected_errors)] @@ frame
    /\ pc' = "feedback"
    /\ UNCHANGED <<argv, stdin, stdout, exit_code, essay_model, comprehensive_analyzer,
                   filterVars, detectVars, adjustVars, threadVars, synthVars, combineVars, structureVars, rulesVars, grammarVars>>

\* 7. feedback = self.generate_comprehensive_feedback(...)
Feedback ==
    /\ pc = "feedback"
    /\ frame' = [feedback |-> generate_comprehensive_feedback(frame.adjusted_scores,
                                  frame.basic_stats, frame.level, frame.detected_errors)]
                    @@ frame
    /\ pc' = "improvements"
    /\ UNCHANGED <<argv, stdin, stdout, exit_code, essay_model, comprehensive_analyzer,
                   filterVars, detectVars, adjustVars, threadVars, synthVars, combineVars, structureVars, rulesVars, grammarVars>>

\* 8. improvements = self.generate_improvement_suggestions(...)
Improvements ==
    /\ pc = "improvements"
    /\ frame' = [improvements |-> generate_improvement_suggestions(frame.adjusted_scores,
                                      frame.detected_errors, frame.level)] @@ frame
    /\ pc' = "structure"
    /\ UNCHANGED <<argv, stdin, stdout, exit_code, essay_model, comprehensive_analyzer,
                   filterVars, detectVars, adjustVars, threadVars, synthVars, combineVars, structureVars, rulesVars, grammarVars>>

\* 9. structure_analysis = self.analyze_essay_structure(essay_text)
Structure ==
    /\ pc = "structure"
    /\ frame' = [structure_analysis |-> analyze_essay_structure(frame.essay.value)] @@ frame
    /\ pc' = "group"
    /\ UNCHANGED <<argv, stdin, stdout, exit_code, essay_model, comprehensive_analyzer,
                   filterVars, detectVars, adjustVars, threadVars, synthVars, combineVars, structureVars, rulesVars, grammarVars>>

\* 10. grouped_errors = self.group_errors_by_type(detected_errors), then the
\* result is compiled and returned to main
GroupAndCompile ==
    /\ pc = "group"
    /\ frame' = [grouped_errors |-> group_errors_by_type(frame.detected_errors),
                 analysis |-> CompileAnalysis(frame.adjusted_scores, frame.feedback,
                                  frame.improvements, frame.structure_analysis,
                                  frame.basic_stats, frame.detected_errors,
                                  group_errors_by_type(frame.detected_errors), frame.level)]
                    @@ frame
    /\ pc' = "print"
    /\ UNCHANGED <<argv, stdin, stdout, exit_code, essay_model, comprehensive_analyzer,
                   filterVars, detectVars, adjustVars, threadVars, synthVars, combineVars, structureVars, rulesVars, grammarVars>>

\* except Exception: return self.fallback_analysis(essay_text, prompt_text, level)
Fallback ==
    /\ pc = "fallback"
    /\ StepResult(fallback_analysis(frame.essay, frame.prompt, frame.level),
                  "analysis", "print", "except")
    /\ UNCHANGED <<argv, stdin, stdout, exit_code, essay_model, comprehensive_analyzer,
                   filterVars, detectVars, adjustVars, threadVars, synthVars, combineVars, structureVars, rulesVars, grammarVars>>

\* print(json.dumps(analysis, indent=2)) and the end of main
PrintAnalysis ==
    /\ pc = "print"
    /\ stdout' = Append(stdout, Printed("analysis", frame.analysis))
    /\ exit_code' = <<0>>
    /\ pc' = "exited"
    /\ UNCHANGED <<argv, stdin, essay_model, comprehensive_analyzer, frame,
                   filterVars, detectVars, adjustVars, threadVars, synthVars, combineVars, structureVars, rulesVars, grammarVars>>

\* the error document of a handler of main, and sys.exit(1)
ExitWithError(message) ==
    /\ stdout' = Append(stdout, Printed("error", [success |-> FALSE, error |-> message]))
    /\ exit_code' = <<1>>
    /\ pc' = "exited"
    /\ UNCHANGED <<argv, stdin, essay_model, comprehensive_analyzer, frame,
                   filterVars, detectVars, adjustVars, threadVars, synthVars, combineVars, structureVars, rulesVars, grammarVars>>

ExceptJSONDecodeError ==
    /\ pc = "except"
    /\ frame.exc.exc = "JSONDecodeError"
    /\ ExitWithError("Invalid JSON input: " \o frame.exc.message)

ExceptValueError ==
    /\ pc = "except"
    /\ frame.exc.exc = "ValueError"
    /\ ExitWithError(frame.exc.message)

ExceptException ==
    /\ pc = "except"
    /\ frame.exc.exc \notin {"JSONDecodeError", "ValueError"}
    /\ ExitWithError("Analysis failed: " \o frame.exc.message)

Next ==
    \/ TestMode \/ ReadInput \/ GetAnalyzer
    \/ Statistics \/ MlScores \/ RuleScores \/ Combine \/ Detect \/ Adjust
    \/ Feedback \/ Improvements \/ Structure \/ GroupAndCompile
    \/ Fallback \/ PrintAnalysis
    \/ ExceptJSONDecodeError \/ ExceptValueError \/ ExceptException

Spec == InitMain /\ [][Next]_vars

(***************************************************************************)
(* adjust_scores_for_errors on its own: the scores combine_scores gave are *)
(* fixed, and the error list grows by one error at a time.                 *)
(***************************************************************************)
\* the conventions score of the rule-based scorer: no error, or errors enough
\* to reach its floor
RuleConventions == { Tenths(80), Tenths(10) }

\* an error of the list, as a detector builds it
ErrorOfType(type) == ErrorRecord(type, "x", 0, 1, "y", "z", "medium", 8)

InitAdjust ==
    /\ \E k \in 1..Len(ProviderAnswers), conventions \in RuleConventions :
          given_scores =
              combine_scores(get_ml_scores(predict_essay_scores(ProviderAnswers[k])),
                             RuleScoresOf(Tenths(60), Tenths(60), Tenths(60), conventions, 10),
                             PyStr("intermediate"))
    /\ given_errors = <<>>
    /\ returned = adjust_scores_for_errors(given_scores, <<>>)
    /\ returned_before = returned
    /\ IdleFilter
    /\ IdleGrammar
    /\ IdleRules
    /\ IdleStructure
    /\ IdleCombine
    /\ IdleDetect
    /\ IdleMain
    /\ IdleThreads
    /\ IdleSynth

\* the types of the errors of the list: two the adjustment counts (style also
\* for the language score) and one it does not count
AddedTypes == <<"spelling", "style", "coherence">>

\* the list gets one more error, placed after the errors of its type
AddError ==
    /\ Len(given_errors) < MaxErrors
    /\ \E i \in 1..Len(AddedTypes) :
          given_errors' =
              SelectSeq(given_errors, LAMBDA e : \E j \in 1..i : e.type = AddedTypes[j])
                  \o <<ErrorOfType(AddedTypes[i])>>
                  \o SelectSeq(given_errors,
                               LAMBDA e : \E j \in (i + 1)..Len(AddedTypes) : e.type = AddedTypes[j])
    /\ returned' = adjust_scores_for_errors(given_scores, given_errors')
    /\ returned_before' = returned
    /\ UNCHANGED <<given_scores, filterVars, detectVars, mainVars, threadVars, synthVars, combineVars, structureVars, rulesVars, grammarVars>>

NextAdjust == AddError

SpecAdjust == InitAdjust /\ [][NextAdjust]_vars

(***************************************************************************)
(* The lazy accessors called from several threads of one process.  The     *)
(* accessors take no lock: a thread can be switched out between any two    *)
(* statements.  An instance is a place of the heap, 0 stands for None.     *)
(***************************************************************************)
Threads == 1..MaxThreads

\* the functions a thread enters the modules by
EntryPoints == {"detect_errors", "predict_essay_scores", "analyze_essay_comprehensive"}

\* the global each accessor guards and the class it constructs
AccessorGlobal ==
    [get_error_detector |-> "error_detector",
     get_essay_model |-> "essay_model",
     get_comprehensive_analyzer |-> "comprehensive_analyzer"]

AccessorClass ==
    [get_error_detector |-> "AdvancedErrorDetector",
     get_essay_model |-> "AdvancedEssayScoringModel",
     get_comprehensive_analyzer |-> "ComprehensiveEssayAnalyzer"]

\* a call of fn that is about to run its statement at; ret is what the last
\* call it made returned, em and made are its locals
Call(fn, at) == [fn |-> fn, at |-> at, ret |-> 0, em |-> 0, made |-> 0]

\* the instance a constructor leaves: self.model of the essay model is None,
\* the analyzer keeps the two instances its __init__ asked for
Instance(class, em, ed) ==
    [class |-> class, model |-> 0, essay_model |-> em, error_detector |-> ed]

\* what a thread has been handed so far
NothingYet == [error_detector |-> 0, essay_model |-> 0, comprehensive_analyzer |-> 0,
               network |-> 0]

Top(t) == tstack[t][Len(tstack[t])]

\* the running call of thread t goes on as frame f
Goes(t, f) == tstack' = [tstack EXCEPT ![t] = Front(@) \o <<f>>]

\* the running call of thread t goes on as frame f after the call it makes
Calls(t, f, callee) == tstack' = [tstack EXCEPT ![t] = Front(@) \o <<f, callee>>]

\* the running call of thread t returns value to its caller
Returns(t, value) ==
    tstack' = [tstack EXCEPT ![t] =
                  IF Len(@) = 1 THEN <<>>
                  ELSE SubSeq(@, 1, Len(@) - 2) \o <<[@[Len(@) - 1] EXCEPT !.ret = value]>>]

IsAccessor(fn) == fn \in DOMAIN AccessorGlobal

InitThreads ==
    /\ tstack \in [Threads -> { <<Call(e, "call")>> : e \in EntryPoints }]
    /\ tgot = [t \in Threads |-> NothingYet]
    /\ heap = <<>>
    /\ singletons = [error_detector |-> 0, essay_model |-> 0, comprehensive_analyzer |-> 0]
    /\ networks = 0
    /\ IdleFilter
    /\ IdleGrammar
    /\ IdleRules
    /\ IdleStructure
    /\ IdleCombine
    /\ IdleDetect
    /\ IdleMain
    /\ IdleAdjust
    /\ IdleSynth

\* "if error_detector is None:" (and the same test of the two other accessors)
AccessorCheck(t) ==
    /\ tstack[t] # <<>>
    /\ IsAccessor(Top(t).fn)
    /\ Top(t).at = "check"
    /\ Goes(t, [Top(t) EXCEPT !.at =
                   IF singletons[AccessorGlobal[Top(t).fn]] # 0 THEN "return"
                   ELSE IF Top(t).fn = "get_comprehensive_analyzer" THEN "init_model"
                   ELSE "construct"])
    /\ UNCHANGED <<tgot, heap, singletons, networks>>

\* ComprehensiveEssayAnalyzer.__init__: self.essay_model = get_essay_model()
AnalyzerInitModel(t) ==
    /\ tstack[t] # <<>>
    /\ Top(t).fn = "get_comprehensive_analyzer"
    /\ Top(t).at = "init_model"
    /\ Calls(t, [Top(t) EXCEPT !.at = "init_detector"], Call("get_essay_model", "check"))
    /\ UNCHANGED <<tgot, heap, singletons, networks>>

\* ComprehensiveEssayAnalyzer.__init__: self.error_detector = get_error_detector()
AnalyzerInitDetector(t) ==
    /\ tstack[t] # <<>>
    /\ Top(t).fn = "get_comprehensive_analyzer"
    /\ Top(t).at = "init_detector"
    /\ Calls(t, [Top(t) EXCEPT !.at = "construct", !.em = Top(t).ret],
             Call("get_error_detector", "check"))
    /\ UNCHANGED <<tgot, heap, singletons, networks>>

\* the constructor has run: AdvancedErrorDetector(), AdvancedEssayScoringModel()
\* or ComprehensiveEssayAnalyzer()
AccessorConstruct(t) ==
    /\ tstack[t] # <<>>
    /\ IsAccessor(Top(t).fn)
    /\ Top(t).at = "construct"
    /\ heap' = Append(heap,
                      IF Top(t).fn = "get_comprehensive_analyzer"
                      THEN Instance(AccessorClass[Top(t).fn], Top(t).em, Top(t).ret)
                      ELSE Instance(AccessorClass[Top(t).fn], 0, 0))
    /\ Goes(t, [Top(t) EXCEPT !.at = "assign", !.made = Len(heap) + 1])
    /\ UNCHANGED <<tgot, singletons, networks>>

\* the global is bound to the new instance
AccessorAssign(t) ==
    /\ tstack[t] # <<>>
    /\ IsAccessor(Top(t).fn)
    /\ Top(t).at = "assign"
    /\ singletons' = [singletons EXCEPT ![AccessorGlobal[Top(t).fn]] = Top(t).made]
    /\ Goes(t, [Top(t) EXCEPT !.at = "return"])
    /\ UNCHANGED <<tgot, heap, networks>>

\* "return error_detector": the value the global has now
AccessorReturn(t) ==
    /\ tstack[t] # <<>>
    /\ IsAccessor(Top(t).fn)
    /\ Top(t).at = "return"
    /\ Returns(t, singletons[AccessorGlobal[Top(t).fn]])
    /\ UNCHANGED <<tgot, heap, singletons, networks>>

\* the first statement of an entry point: detector = get_error_detector(),
\* model = get_essay_model(), analyzer = get_comprehensive_analyzer()
EntryCall(t) ==
    /\ tstack[t] # <<>>
    /\ Top(t).fn \in EntryPoints
    /\ Top(t).at = "call"
    /\ Calls(t, [Top(t) EXCEPT !.at = "use"],
             Call(CASE Top(t).fn = "detect_errors" -> "get_error_detector"
                    [] Top(t).fn = "predict_essay_scores" -> "get_essay_model"
                    [] OTHER -> "get_comprehensive_analyzer",
                  "check"))
    /\ UNCHANGED <<tgot, heap, singletons, networks>>

\* return detector.detect_all_errors(text): the detectors read the tables of
\* the instance
DetectAllErrors(t) ==
    /\ tstack[t] # <<>>
    /\ Top(t).fn = "detect_errors"
    /\ Top(t).at = "use"
    /\ tgot' = [tgot EXCEPT ![t].error_detector = Top(t).ret]
    /\ Returns(t, 0)
    /\ UNCHANGED <<heap, singletons, networks>>

\* predict_scores: "if self.model is None:"
PredictCheck(t) ==
    /\ tstack[t] # <<>>
    /\ Top(t).fn = "predict_essay_scores"
    /\ Top(t).at = "use"
    /\ tgot' = [tgot EXCEPT ![t].essay_model = Top(t).ret]
    /\ Goes(t, [Top(t) EXCEPT !.at = IF heap[Top(t).ret].model = 0 THEN "build" ELSE "predict"])
    /\ UNCHANGED <<heap, singletons, networks>>

\* self.build_advanced_model(): a new network, bound to self.model
BuildAdvancedModel(t) ==
    /\ tstack[t] # <<>>
    /\ Top(t).fn = "predict_essay_scores"
    /\ Top(t).at = "build"
    /\ networks' = networks + 1
    /\ heap' = [heap EXCEPT ![Top(t).ret].model = networks + 1]
    /\ Goes(t, [Top(t) EXCEPT !.at = "predict"])
    /\ UNCHANGED <<tgot, singletons>>

\* predictions = self.model.predict(inputs, verbose=0)
Predict(t) ==
    /\ tstack[t] # <<>>
    /\ Top(t).fn = "predict_essay_scores"
    /\ Top(t).at = "predict"
    /\ tgot' = [tgot EXCEPT ![t].network = heap[Top(t).ret].model]
    /\ Returns(t, 0)
    /\ UNCHANGED <<heap, singletons, networks>>

\* analyzer.analyze_essay_comprehensive: step 2, get_ml_scores calls
\* predict_essay_scores
AnalysisMlScores(t) ==
    /\ tstack[t] # <<>>
    /\ Top(t).fn = "analyze_essay_comprehensive"
    /\ Top(t).at = "use"
    /\ tgot' = [tgot EXCEPT ![t].comprehensive_analyzer = Top(t).ret]
    /\ Calls(t, [Top(t) EXCEPT !.at = "detect"], Call("predict_essay_scores", "call"))
    /\ UNCHANGED <<heap, singletons, networks>>

\* step 5, detect_errors(essay_text)
AnalysisDetect(t) ==
    /\ tstack[t] # <<>>
    /\ Top(t).fn = "analyze_essay_comprehensive"
    /\ Top(t).at = "detect"
    /\ Calls(t, [Top(t) EXCEPT !.at = "compile"], Call("detect_errors", "call"))
    /\ UNCHANGED <<tgot, heap, singletons, networks>>

\* the result is compiled and returned
AnalysisReturn(t) ==
    /\ tstack[t] # <<>>
    /\ Top(t).fn = "analyze_essay_comprehensive"
    /\ Top(t).at = "compile"
    /\ Returns(t, 0)
    /\ UNCHANGED <<tgot, heap, singletons, networks>>

\* an analysis is abandoned between two of its components
Abandon(t) ==
    /\ tstack[t] # <<>>
    /\ Top(t).fn = "analyze_essay_comprehensive"
    /\ Top(t).at \in {"detect", "compile"}
    /\ tstack' = [tstack EXCEPT ![t] = <<>>]
    /\ UNCHANGED <<tgot, heap, singletons, networks>>

NextThreads ==
    /\ \E t \in Threads :
          \/ EntryCall(t)
          \/ AccessorCheck(t)
          \/ AnalyzerInitModel(t)
          \/ AnalyzerInitDetector(t)
          \/ AccessorConstruct(t)
          \/ AccessorAssign(t)
          \/ AccessorReturn(t)
          \/ DetectAllErrors(t)
          \/ PredictCheck(t)
          \/ BuildAdvancedModel(t)
          \/ Predict(t)
          \/ AnalysisMlScores(t)
          \/ AnalysisDetect(t)
          \/ AnalysisReturn(t)
          \/ Abandon(t)
    /\ UNCHANGED <<filterVars, detectVars, mainVars, adjustVars, synthVars, combineVars, structureVars, rulesVars, grammarVars>>

SpecThreads == InitThreads /\ [][NextThreads]_vars

(***************************************************************************)
(* generate_comprehensive_feedback and generate_improvement_suggestions on *)
(* their own: the adjusted scores and the level are fixed, and the error   *)
(* list grows by one error at a time.                                      *)
(***************************************************************************)
\* scores on and between the thresholds of the two generators
ScoreValues == { Tenths(50), Tenths(60), Tenths(70), Tenths(75), Tenths(80), Tenths(90) }
BaseValues == { Tenths(50), Tenths(70), Tenths(90) }

\* adjusted scores: one aspect has any of the values, the three others share
\* one; overall is their mean, as adjust_scores_for_errors leaves it
AdjustedScores ==
    { [content |-> q[1], organization |-> q[2], language |-> q[3], conventions |-> q[4],
       overall |-> (q[1] + q[2] + q[3] + q[4]) \div 4] :
          q \in { [k \in 1..4 |-> IF k = w[1] THEN w[2] ELSE w[3]] :
                    w \in (1..4) \X ScoreValues \X BaseValues } }

Levels == {"beginner", "intermediate", "advanced"}

\* the types of the errors of the list: two with an entry in
\* error_improvements and one without
SynthTypes == <<"spelling", "grammar", "coherence">>

InitSynth ==
    /\ the_scores \in AdjustedScores
    /\ the_level \in { PyStr(l) : l \in Levels }
    /\ the_errors = <<>>
    /\ feedback_items = generate_comprehensive_feedback(the_scores, None, the_level, <<>>)
    /\ feedback_items_before = feedback_items
    /\ improvement_items = generate_improvement_suggestions(the_scores, <<>>, the_level)
    /\ IdleFilter
    /\ IdleGrammar
    /\ IdleRules
    /\ IdleStructure
    /\ IdleCombine
    /\ IdleDetect
    /\ IdleMain
    /\ IdleAdjust
    /\ IdleThreads

\* the list gets one more error, after the others, and the two generators
\* are called again; a list of MaxMixed errors or more grows by errors of
\* the type of its last one
AppendError ==
    /\ Len(the_errors) < MaxSynthErrors
    /\ \E k \in 1..Len(SynthTypes) :
          /\ IF Len(the_errors) < MaxMixed THEN TRUE
             ELSE SynthTypes[k] = Last(the_errors).type
          /\ the_errors' = Append(the_errors,
                                  ErrorRecord(SynthTypes[k], "x", 2 * Len(the_errors),
                                              2 * Len(the_errors) + 1, "y", "z", "medium", 8))
    /\ feedback_items' = generate_comprehensive_feedback(the_scores, None, the_level, the_errors')
    /\ feedback_items_before' = feedback_items
    /\ improvement_items' = generate_improvement_suggestions(the_scores, the_errors', the_level)
    /\ UNCHANGED <<the_scores, the_level, filterVars, detectVars, mainVars, adjustVars, threadVars,
                   combineVars, structureVars, rulesVars, grammarVars>>

NextSynth == AppendError

SpecSynth == InitSynth /\ [][NextSynth]_vars

(***************************************************************************)
(* combine_scores statement by statement: the weights are locals set before *)
(* the loop over the aspects, and the loop assigns them again when the two  *)
(* scores of an aspect are far apart.                                       *)
(***************************************************************************)
\* scores the model and the rules give an aspect: 2.0 apart at most, or more
MlValues == { Tenths(20), Tenths(50), Tenths(80) }
RuleValues == { Tenths(50), Tenths(70) }

\* "if abs(ml_score - rule_score) > 2.0"
Diverges(ml_score, rule_score) == Abs(ml_score - rule_score) > Tenths(20)

\* weights chosen for each aspect by itself
WeightsOfAspect(weights, diverges) == IF diverges THEN <<4, 6>> ELSE <<7, 3>>

\* the weights after the if statement of the loop body
WeightsAfter(weights, diverges) == IF diverges THEN <<4, 6>> ELSE weights

InitCombine ==
    /\ ml_in \in { [content |-> q[1], organization |-> q[2], language |-> q[3],
                    conventions |-> q[4], overall |-> Tenths(50)] :
                       q \in [1..4 -> MlValues] }
    /\ rule_in \in { [content |-> q[1], organization |-> q[2], language |-> q[3],
                      conventions |-> q[4]] : q \in [1..4 -> RuleValues] }
    /\ loop_at = 0
    /\ ml_weight = 7
    /\ rule_weight = 3
    /\ weights_used = <<>>
    /\ combined = <<>>
    /\ IdleFilter
    /\ IdleGrammar
    /\ IdleRules
    /\ IdleStructure
    /\ IdleDetect
    /\ IdleMain
    /\ IdleAdjust
    /\ IdleThreads
    /\ IdleSynth

\* one pass of "for aspect in [...]"
CombineAspect ==
    /\ loop_at < Len(aspects)
    /\ ml_weight' = WeightsAfter(<<ml_weight, rule_weight>>,
                        Diverges(DictGet(ml_in, aspects[loop_at + 1], Tenths(60)),
                                 DictGet(rule_in, aspects[loop_at + 1], Tenths(60))))[1]
    /\ rule_weight' = WeightsAfter(<<ml_weight, rule_weight>>,
                          Diverges(DictGet(ml_in, aspects[loop_at + 1], Tenths(60)),
                                   DictGet(rule_in, aspects[loop_at + 1], Tenths(60))))[2]
    /\ combined' = (aspects[loop_at + 1] :>
                        (DictGet(ml_in, aspects[loop_at + 1], Tenths(60)) * ml_weight'
                           + DictGet(rule_in, aspects[loop_at + 1], Tenths(60)) * rule_weight')
                        \div 10) @@ combined
    /\ weights_used' = Append(weights_used, <<ml_weight', rule_weight'>>)
    /\ loop_at' = loop_at + 1
    /\ UNCHANGED <<ml_in, rule_in, filterVars, detectVars, mainVars, adjustVars, threadVars,
                   synthVars, structureVars, rulesVars, grammarVars>>

\* combined["overall"] = sum(...) / 4, and the return
CombineOverall ==
    /\ loop_at = Len(aspects)
    /\ combined' = combined @@ [overall |-> (combined.content + combined.organization
                                               + combined.language + combined.conventions) \div 4]
    /\ loop_at' = Len(aspects) + 1
    /\ UNCHANGED <<ml_in, rule_in, ml_weight, rule_weight, weights_used, filterVars, detectVars,
                   mainVars, adjustVars, threadVars, synthVars, structureVars, rulesVars, grammarVars>>

NextCombine == CombineAspect \/ CombineOverall

SpecCombine == InitCombine /\ [][NextCombine]_vars

(***************************************************************************)
(* calculate_structure_score on its own, for the flags and counts that      *)
(* analyze_essay_structure can hand it.                                     *)
(***************************************************************************)
InitStructure ==
    /\ struct_call \in [has_intro : BOOLEAN, has_conclusion : BOOLEAN, has_thesis : BOOLEAN,
                        para_count : 0..MaxParagraphs, transitions : 0..MaxTransitions]
    /\ struct_result = None
    /\ IdleFilter
    /\ IdleGrammar
    /\ IdleRules
    /\ IdleDetect
    /\ IdleMain
    /\ IdleAdjust
    /\ IdleThreads
    /\ IdleSynth
    /\ IdleCombine

\* self.calculate_structure_score(has_introduction, has_conclusion,
\* thesis_detected, len(paragraphs), transition_count)
CalculateStructureScore ==
    /\ struct_result = None
    /\ struct_result' = Ok(calculate_structure_score(struct_call.has_intro,
                               struct_call.has_conclusion, struct_call.has_thesis,
                               struct_call.para_count, struct_call.transitions))
    /\ UNCHANGED <<struct_call, filterVars, detectVars, mainVars, adjustVars, threadVars,
                   synthVars, combineVars, rulesVars, grammarVars>>

NextStructure == CalculateStructureScore

SpecStructure == InitStructure /\ [][NextStructure]_vars

(***************************************************************************)
(* get_rule_based_scores on its own: one call for an essay, a prompt and a *)
(* level.  The conventions scorer fetches the detector through             *)
(* detect_errors, creating it when the module has none yet.                *)
(***************************************************************************)
AcademicEssay ==
    "Research evidence theory analysis show that we cant go home and see them play ball today"

RulesEssays == { ShortEssay, ErrorEssay, AcademicEssay, "We have time." }

RulesPrompts == << ShortPrompt, PyStr(""), PyInt(5) >>

RulesLevels ==
    << PyStr("beginner"), PyStr("intermediate"), PyStr("advanced"), PyStr("expert"),
       PyInt(3), PyList(<<PyStr("advanced")>>) >>

InitRules ==
    /\ \E essay \in RulesEssays, p \in 1..Len(RulesPrompts), l \in 1..Len(RulesLevels) :
          rules_call = [essay |-> essay, prompt |-> RulesPrompts[p], level |-> RulesLevels[l]]
    /\ rules_result = None
    /\ IdleFilter
    /\ IdleGrammar
    /\ IdleDetect
    /\ IdleStructure
    /\ IdleCombine
    /\ IdleMain
    /\ IdleAdjust
    /\ IdleThreads
    /\ IdleSynth

\* the call; score_content_rule_based raises before detect_errors is reached
GetRuleBasedScores ==
    /\ rules_result = None
    /\ \E nlp_available \in (IF error_detector = None THEN BOOLEAN
                             ELSE {error_detector.nlp_available}) :
          /\ rules_result' =
                 get_rule_based_scores(rules_call.essay, rules_call.prompt, rules_call.level,
                     analyze_essay_features(rules_call.essay),
                     detect_all_errors(get_error_detector(nlp_available), rules_call.essay))
          /\ error_detector' = IF rules_call.prompt.type = "str"
                               THEN get_error_detector(nlp_available)
                               ELSE error_detector
    /\ UNCHANGED <<rules_call, callVars, filterVars, mainVars, adjustVars, threadVars,
                   synthVars, combineVars, structureVars, grammarVars>>

NextRules == GetRuleBasedScores

SpecRules == InitRules /\ [][NextRules]_vars

(***************************************************************************)
(* detect_grammar_errors on its own: the method of a detector instance is  *)
(* called on a text that holds a modal verb followed by "of".              *)
(***************************************************************************)
\* the five modal verbs of the rule, as written in mid-sentence and at the
\* start of a sentence
Modals ==
    {"could", "should", "would", "must", "might",
     "Could", "Should", "Would", "Must", "Might"}

GrammarTexts ==
    { before \o modal \o " of" \o after :
        before \in {"", "He ", "We "},
        modal \in Modals,
        after \in {"", " gone.", " known it."} }

InitGrammar ==
    /\ gram_text \in GrammarTexts
    /\ gram_errors = None
    /\ error_detector \in { AdvancedErrorDetector(nlp_available) : nlp_available \in BOOLEAN }
    /\ dpc = "idle"
    /\ dtext = ""
    /\ nfrag = 0
    /\ first_call = None
    /\ last_call = None
    /\ IdleFilter
    /\ IdleRules
    /\ IdleStructure
    /\ IdleCombine
    /\ IdleMain
    /\ IdleAdjust
    /\ IdleThreads
    /\ IdleSynth

DetectGrammarErrors ==
    /\ gram_errors = None
    /\ gram_errors' = Ok(detect_grammar_errors(error_detector, gram_text))
    /\ UNCHANGED <<gram_text, detectVars, filterVars, mainVars, adjustVars, threadVars,
                   synthVars, combineVars, structureVars, rulesVars>>

NextGrammar == DetectGrammarErrors

SpecGrammar == InitGrammar /\ [][NextGrammar]_vars

(***************************************************************************)
(* Detection of a text with a misspelt word, alone or inside a clause the  *)
(* sentence-fragment rule of the grammar detector matches as a whole.      *)
(***************************************************************************)
Misspelt == {"cant", "dont", "alot", "recieve"}

SpeltTexts ==
    { before \o wrong \o after :
        before \in {"", "If he ", "Because we "},
        wrong \in Misspelt,
        after \in {" go.", " dont go. We", " stop it now. Then"} }

InitSpelt ==
    /\ error_detector = None
    /\ dpc = "compose"
    /\ dtext \in SpeltTexts
    /\ nfrag = 1
    /\ first_call = None
    /\ last_call = None
    /\ IdleFilter
    /\ IdleGrammar
    /\ IdleRules
    /\ IdleStructure
    /\ IdleCombine
    /\ IdleMain
    /\ IdleAdjust
    /\ IdleThreads
    /\ IdleSynth

NextSpelt == FirstCall

SpecSpelt == InitSpelt /\ [][NextSpelt]_vars

(***************************************************************************)
(* Properties.                                                             *)
(***************************************************************************)
\* two records overlap when their half-open ranges intersect
Overlap(a, b) == a.start_pos < b.end_pos /\ b.start_pos < a.end_pos

\* C2: given exactly two overlapping candidates with confidences c1 < c2, in
\* either start order, the resolver returns exactly one record, the
\* candidate with confidence c2.
C2_HigherConfidenceKept ==
    (/\ fpc = "done"
     /\ Len(cands) = 2
     /\ Overlap(cands[1], cands[2])
     /\ cands[1].confidence # cands[2].confidence)
    => LET hi == IF cands[1].confidence > cands[2].confidence
                 THEN cands[1] ELSE cands[2]
       IN filtered = <<hi>>

\* the candidate of lower confidence starts first and is replaced
C2_Witness ==
    /\ fpc = "done"
    /\ Len(cands) = 2
    /\ Overlap(cands[1], cands[2])
    /\ cands[1].start_pos < cands[2].start_pos
    /\ cands[1].confidence < cands[2].confidence
    /\ filtered = <<cands[2]>>

\* C1: the error list returned by detection is strictly ordered by start
\* offset and no two of its records overlap: for records i < j,
\* end_pos of i <= start_pos of j and start_pos of i < start_pos of j.
C1_StrictlyOrderedNoOverlap ==
    last_call # None =>
        \A i, j \in 1..Len(last_call.errors) :
            i < j => /\ last_call.errors[i].end_pos <= last_call.errors[j].start_pos
                     /\ last_call.errors[i].start_pos < last_call.errors[j].start_pos

C4_ScoresInRangeForProviderInContract ==
    (/\ "analysis" \in DOMAIN frame
     /\ \/ frame.provided.raised
        \/ \A a \in DOMAIN frame.provided.value :
               /\ Tenths(10) <= frame.provided.value[a]
               /\ frame.provided.value[a] <= Tenths(100))
    => /\ Tenths(10) <= frame.analysis.overall_score
       /\ frame.analysis.overall_score <= Tenths(100)
       /\ \A a \in DOMAIN frame.analysis.detailed_scores :
              /\ Tenths(10) <= frame.analysis.detailed_scores[a]
              /\ frame.analysis.detailed_scores[a] <= Tenths(100)

\* the provider returned 1.0 for every aspect, the essay has counted errors
\* and the penalty ran into the floor of the conventions score
C4_Witness ==
    /\ "analysis" \in DOMAIN frame
    /\ ~frame.provided.raised
    /\ frame.provided.value.conventions = Tenths(10)
    /\ frame.analysis.analysis_method = "comprehensive_ml_rule_hybrid"
    /\ frame.analysis.error_count > 0
    /\ frame.analysis.detailed_scores.conventions = Tenths(10)

C8_AnalysisFaultsNeverReachMain ==
    pc = "except" => comprehensive_analyzer = None

\* C9: every result has the twelve top-level fields of a normal result; the
\* result returned after a fault has analysis_method 'fallback', and a
\* fallback result has no errors, error_count 0, and overall_score and its
\* five detailed scores equal to 6.0, plus 1.0 for 300 words or more, minus
\* 1.0 for fewer than 150 words.
C9_FallbackResultShape ==
    "analysis" \in DOMAIN frame
    => /\ DOMAIN frame.analysis =
              {"overall_score", "detailed_scores", "feedback", "improvements",
               "structure_analysis", "statistics", "errors", "grouped_errors",
               "error_count", "level", "analysis_method", "timestamp"}
       /\ frame.exc # None => frame.analysis.analysis_method = "fallback"
       /\ frame.analysis.analysis_method = "fallback"
          => /\ frame.analysis.errors = <<>>
             /\ frame.analysis.error_count = 0
             /\ DOMAIN frame.analysis.detailed_scores =
                    {"overall", "content", "organization", "language", "conventions"}
             /\ \A s \in {frame.analysis.overall_score}
                          \cup { frame.analysis.detailed_scores[a] :
                                   a \in DOMAIN frame.analysis.detailed_scores } :
                    s = Tenths(60)
                          + (IF frame.analysis.statistics.word_count >= 300
                             THEN Tenths(10) ELSE 0)
                          - (IF frame.analysis.statistics.word_count < 150
                             THEN Tenths(10) ELSE 0)

\* the fallback result for an essay of exactly 300 words
C9_Witness ==
    /\ pc = "exited"
    /\ Len(stdout) = 1
    /\ stdout[1].kind = "analysis"
    /\ stdout[1].doc.analysis_method = "fallback"
    /\ stdout[1].doc.statistics.word_count = 300
    /\ stdout[1].doc.overall_score = Tenths(70)

\* C10: in a run that reads its input (no --test flag), when the input is
\* blank, is no JSON document, or is a document without a non-empty essay
\* or without a non-empty prompt, no analysis is run (no analyzer, essay
\* model or error detector is ever created), nothing but an error document
\* is printed, and the run ends with exactly one error document printed
\* and exit status 1.
C10_InputErrorsAreReported ==
    (/\ pc # "idle"
     /\ ~TestFlag
     /\ \/ stdin.kind = "text"
        \/ stdin.value.type # "dict"
        \/ "essay" \notin DOMAIN stdin.value.value
        \/ stdin.value.value.essay.type = "str" /\ stdin.value.value.essay.value = ""
        \/ "prompt" \notin DOMAIN stdin.value.value
        \/ stdin.value.value.prompt.type = "str" /\ stdin.value.value.prompt.value = "")
    => /\ comprehensive_analyzer = None
       /\ essay_model = None
       /\ error_detector = None
       /\ "analysis" \notin DOMAIN frame
       /\ pc \in {"main", "except", "exited"}
       /\ \A k \in 1..Len(stdout) : stdout[k].kind = "error"
       /\ pc # "exited" => stdout = <<>> /\ exit_code = <<>>
       /\ pc = "exited" => Len(stdout) = 1 /\ exit_code = <<1>>

\* a request without a prompt ended with one error document and status 1
C10_Witness ==
    /\ pc = "exited"
    /\ stdin.kind = "json"
    /\ stdin.value.type = "dict"
    /\ "essay" \in DOMAIN stdin.value.value
    /\ "prompt" \notin DOMAIN stdin.value.value
    /\ Len(stdout) = 1
    /\ stdout[1].kind = "error"
    /\ stdout[1].doc.error = "Prompt text is required"
    /\ exit_code = <<1>>

\* C11: the command ends with a non-zero status only for an input error
\* (blank input, input that is no JSON object, a missing or empty essay, a
\* missing or empty prompt): a run whose request passed the checks of main
\* ends with exit status 0.
C11_NonZeroExitOnlyForInputErrors ==
    (pc = "exited" /\ exit_code # <<0>>)
    => \/ stdin.kind = "text"
       \/ stdin.value.type # "dict"
       \/ "essay" \notin DOMAIN stdin.value.value
       \/ ~Truthy(stdin.value.value.essay)
       \/ "prompt" \notin DOMAIN stdin.value.value
       \/ ~Truthy(stdin.value.value.prompt)

\* C12: whatever the interleaving of the threads, each class behind a lazy
\* accessor is constructed at most once and all callers of an accessor are
\* handed the same instance.
C12_SharedInstanceConstructedOnce ==
    /\ \A a \in DOMAIN AccessorClass :
           Cardinality({ k \in 1..Len(heap) : heap[k].class = AccessorClass[a] }) <= 1
    /\ \A t1, t2 \in Threads : \A g \in DOMAIN singletons :
           (tgot[t1][g] # 0 /\ tgot[t2][g] # 0) => tgot[t1][g] = tgot[t2][g]

\* C13: once the three singletons are initialized, no step of a detection, a
\* prediction or an analysis changes an instance or a global.
C13_CallsLeaveSharedStateAlone ==
    [][(\A g \in DOMAIN singletons : singletons[g] # 0)
           => (heap' = heap /\ singletons' = singletons)]_vars

\* the band of a feedback item: everything but the wording of its comment
BandOf(item) == <<item.category, item.type, item.severity>>

\* C14: the feedback has one band item for each of overall, content,
\* organization, language and conventions, in that order, the overall one
\* chosen by the thresholds 8.5, 7.0 and 5.5 and every one chosen by the scores
\* alone (another error of the essay, the scores being the same, changes the
\* band of no item), followed by one level item exactly when the level is
\* advanced and overall is below 7.0 or the level is beginner and overall is at
\* least 7.0: five or six items in all.
C14_FeedbackBandsChosenByScores ==
    /\ Len(feedback_items) \in {5, 6}
    /\ Len(feedback_items) = 6
           <=> \/ the_level.value = "advanced" /\ the_scores.overall < Tenths(70)
               \/ the_level.value = "beginner" /\ the_scores.overall >= Tenths(70)
    /\ << feedback_items[1].category, feedback_items[2].category, feedback_items[3].category,
          feedback_items[4].category, feedback_items[5].category >>
           = << "Overall Assessment", "Content Development", "Organization", "Language Use",
                "Writing Conventions" >>
    /\ feedback_items[1].comment
           = IF the_scores.overall >= Tenths(85)
             THEN "Excellent essay with strong performance across all areas."
             ELSE IF the_scores.overall >= Tenths(70)
             THEN "Good essay with solid foundation and clear strengths."
             ELSE IF the_scores.overall >= Tenths(55)
             THEN "Developing essay with room for improvement in several areas."
             ELSE "Essay needs significant development across multiple areas."
    /\ \A k \in 1..5 : BandOf(feedback_items[k]) = BandOf(feedback_items_before[k])

\* the area under which each aspect's improvement is listed
AspectArea ==
    [content |-> "Content Development", organization |-> "Essay Organization",
     language |-> "Language and Style", conventions |-> "Writing Conventions"]

\* the improvement items listed under the area of an aspect
ItemsOfAspect(aspect) ==
    { k \in 1..Len(improvement_items) : improvement_items[k].area = AspectArea[aspect] }

\* C15: each of content, organization, language and conventions has an
\* improvement item exactly when its score is below 8.0, of priority high below
\* 6.0, medium from 6.0 to below 7.0 and low from 7.0 to below 8.0; the overall
\* score produces no item (every item is an aspect's, the error-based one, which
\* comes last, excepted).
C15_AspectItemBelowEight ==
    /\ \A a \in DOMAIN AspectArea :
           /\ Cardinality(ItemsOfAspect(a)) = IF the_scores[a] < Tenths(80) THEN 1 ELSE 0
           /\ \A k \in ItemsOfAspect(a) :
                  improvement_items[k].priority
                      = IF the_scores[a] < Tenths(60) THEN "high"
                        ELSE IF the_scores[a] < Tenths(70) THEN "medium" ELSE "low"
    /\ Cardinality({ k \in 1..Len(improvement_items) :
                        \A a \in DOMAIN AspectArea : improvement_items[k].area # AspectArea[a] }) <= 1
    /\ \A k \in 1..(Len(improvement_items) - 1) :
           \E a \in DOMAIN AspectArea : improvement_items[k].area = AspectArea[a]

\* an essay with errors whose conventions score is exactly 8.0 (no item) and
\* whose content score is exactly 7.0 (an item of low priority)
C15_Witness ==
    /\ the_errors # <<>>
    /\ the_scores.conventions = Tenths(80) /\ ItemsOfAspect("conventions") = {}
    /\ the_scores.content = Tenths(70)
    /\ \E k \in ItemsOfAspect("content") : improvement_items[k].priority = "low"

\* the improvement items that belong to no aspect
OtherItems ==
    { k \in 1..Len(improvement_items) :
          \A a \in DOMAIN AspectArea : improvement_items[k].area # AspectArea[a] }

\* the category with the most errors, the one met first among equals
MostFrequent ==
    the_errors[MinOf({ k \in 1..Len(the_errors) :
                          \A j \in 1..Len(the_errors) :
                              CountTypes(the_errors, {the_errors[j].type})
                                  <= CountTypes(the_errors, {the_errors[k].type}) })].type

\* C16: when the essay has errors, the improvements hold exactly one item
\* besides those of the aspects, it is the item of the most frequent category of
\* the errors (the first met among equals; not the generic item), and its
\* priority is high when that category has more than 5 errors, else medium.
C16_OneItemForMostFrequentCategory ==
    the_errors # <<>>
    => /\ Cardinality(OtherItems) = 1
       /\ \A k \in OtherItems :
              /\ improvement_items[k].area # "General Writing Development"
              /\ MostFrequent = "spelling" => improvement_items[k].area = "Spelling Accuracy"
              /\ MostFrequent = "grammar" => improvement_items[k].area = "Grammar Accuracy"
              /\ improvement_items[k].priority
                     = IF CountTypes(the_errors, {MostFrequent}) > 5 THEN "high" ELSE "medium"

\* the positions of the generic item among the improvements
GenericItems ==
    { k \in 1..Len(improvement_items) :
          improvement_items[k].area = "General Writing Development" }

\* C17: the improvements are never empty; the generic item is there exactly
\* when no aspect produced an item and the errors produced none, and it is then
\* the only item.
C17_GenericItemIffNothingElse ==
    /\ improvement_items # <<>>
    /\ GenericItems # {}
           <=> /\ AspectImprovements(the_scores, the_level) = <<>>
               /\ get_error_based_improvement(the_errors) = <<>>
    /\ GenericItems # {} => Len(improvement_items) = 1

\* an essay with errors, every aspect at 8.0 or more and no item for its
\* errors: the generic item alone
C17_Witness ==
    /\ the_errors # <<>>
    /\ \A a \in DOMAIN AspectArea : the_scores[a] >= Tenths(80)
    /\ GenericItems = {1}
    /\ Len(improvement_items) = 1

\* the offsets in t, from offset from on, at which the non-empty paragraphs
\* begin: the first character that is not white space of every part between
\* blank lines that has one
RECURSIVE ParagraphOffsets(_, _)
ParagraphOffsets(t, from) ==
    Only({ (IF SkipWhile(t, from, "space") < stop[1]
            THEN <<SkipWhile(t, from, "space")>> ELSE <<>>)
           \o (IF stop[2] THEN <<>> ELSE ParagraphOffsets(t, stop[1] + 2)) :
           stop \in { IF FindFrom(t, "\n\n", from) = -1 THEN <<Len(t), TRUE>>
                      ELSE <<FindFrom(t, "\n\n", from), FALSE>> } })

\* the offsets of the paragraphs after the first that are longer than 50
\* characters and have no transition word in their first sentence
UnlinkedParagraphStarts(t) ==
    ConcatAll([i \in 1..(Len(Paragraphs(t)) - 1) |->
        IF /\ Len(Paragraphs(t)[i + 1]) > 50
           /\ ~AnyIn(coherence_transition_words, Lower(SplitOn(Paragraphs(t)[i + 1], ".")[1]))
        THEN <<ParagraphOffsets(t, 0)[i + 1]>> ELSE <<>>])

\* the start offsets of the issues the coherence detector reports on t
CoherenceStarts(t) ==
    [k \in 1..Len(detect_coherence_issues(error_detector, t)) |->
        detect_coherence_issues(error_detector, t)[k].start_pos]

\* C18: on the text of a detection call the coherence detector reports one
\* issue for each paragraph after the first that is longer than 50 characters
\* and has no transition word in its first sentence, in order, each starting at
\* the offset of that very paragraph (also when the same paragraph occurs
\* earlier in the text), and nothing else; a text of one paragraph has no issue.
C18_CoherenceIssueAtOwnParagraph ==
    last_call # None => CoherenceStarts(last_call.text) = UnlinkedParagraphStarts(last_call.text)

\* C19: for the empty text the statistics report no word, no sentence and no
\* paragraph, each of the eight detectors returns without an error and finds
\* nothing, detect_all_errors returns the empty list, and every quotient of the
\* statistics, of the features and of the structure analysis has a divisor of
\* at least 1 (the averages are 0).
C19_EmptyTextIsHarmless ==
    (last_call # None /\ last_call.text = "")
    => /\ last_call.errors = <<>>
       /\ detect_spelling_errors(error_detector, last_call.text) = <<>>
       /\ detect_grammar_errors(error_detector, last_call.text) = <<>>
       /\ detect_punctuation_errors(error_detector, last_call.text) = <<>>
       /\ detect_word_choice_errors(error_detector, last_call.text) = <<>>
       /\ detect_style_issues(error_detector, last_call.text) = <<>>
       /\ detect_coherence_issues(error_detector, last_call.text) = <<>>
       /\ detect_redundancy_issues(error_detector, last_call.text) = <<>>
       /\ detect_clarity_issues(error_detector, last_call.text) = <<>>
       /\ ~extract_basic_statistics(PyStr(last_call.text)).raised
       /\ extract_basic_statistics(PyStr(last_call.text)).value.word_count = 0
       /\ extract_basic_statistics(PyStr(last_call.text)).value.sentence_count = 0
       /\ extract_basic_statistics(PyStr(last_call.text)).value.paragraph_count = 0
       /\ extract_basic_statistics(PyStr(last_call.text)).value.avg_words_per_sentence = 0
       /\ extract_basic_statistics(PyStr(last_call.text)).value.avg_sentences_per_paragraph = 0
       /\ extract_basic_statistics(PyStr(last_call.text)).value.vocabulary_diversity = 0
       /\ analyze_essay_features(last_call.text).avg_words_per_sentence = Ratio(0, 1)
       /\ analyze_essay_features(last_call.text).avg_sentences_per_paragraph = Ratio(0, 1)
       /\ analyze_essay_features(last_call.text).vocabulary_diversity = Ratio(0, 1)
       /\ analyze_essay_features(last_call.text).complex_sentence_ratio = Ratio(0, 1)
       /\ analyze_essay_features(last_call.text).academic_vocabulary_ratio = Ratio(0, 1)
       /\ analyze_essay_structure(last_call.text).avg_paragraph_length = Ratio(0, 1)

\* detection was called on the empty text, a second time after a call on
\* another text
C19_Witness ==
    /\ dpc = "done"
    /\ last_call # None
    /\ last_call.text = ""
    /\ last_call.errors = <<>>

\* the last candidate is the last the scan comes to: no other candidate has a
\* greater sort key (start ascending, confidence descending), and among equal
\* keys the stable sort keeps it last
ScannedLast ==
    \A k \in 1..(Len(cands) - 1) : ~KeyLess(Last(cands), cands[k], "start_confidence")

\* C20: a candidate the scan reaches with a start below lastEnd (the end of
\* the last retained record) takes that record's place only if its confidence
\* is strictly greater; otherwise it is dropped and the retained list stays as
\* it was.  So of two overlapping candidates with the same start and the same
\* confidence the one that came first in the concatenation is retained.
C20_ReplacedOnlyByStrictlyGreater ==
    /\ (/\ fpc = "done"
        /\ Len(cands) >= 2
        /\ ScannedLast
        /\ Last(cands).start_pos < Last(filter_overlapping_errors(Front(cands))).end_pos)
       => filtered
              = IF Last(cands).confidence
                       > Last(filter_overlapping_errors(Front(cands))).confidence
                THEN Append(Front(filter_overlapping_errors(Front(cands))), Last(cands))
                ELSE filter_overlapping_errors(Front(cands))
    /\ (/\ fpc = "done"
        /\ Len(cands) = 2
        /\ Overlap(cands[1], cands[2])
        /\ cands[1].start_pos = cands[2].start_pos
        /\ cands[1].confidence = cands[2].confidence)
       => filtered = <<cands[1]>>

\* three candidates: the third starts inside the record retained of the first
\* two with that record's confidence and is dropped, and the first two start
\* together with one confidence, the earlier one being the one retained
C20_Witness ==
    /\ fpc = "done"
    /\ Len(cands) = 3
    /\ ScannedLast
    /\ Overlap(cands[1], cands[2])
    /\ cands[1] # cands[2]
    /\ cands[1].start_pos = cands[2].start_pos
    /\ cands[1].confidence = cands[2].confidence
    /\ cands[3].start_pos > cands[1].start_pos
    /\ cands[3].start_pos < cands[1].end_pos
    /\ cands[3].confidence = cands[1].confidence
    /\ filtered = <<cands[1]>>

\* the aspects up to the k-th, in the order of the loop, of which the model's
\* and the rules' scores are more than 2.0 apart
DivergedUpTo(k) ==
    { j \in 1..k : ml_in[aspects[j]] - rule_in[aspects[j]] > Tenths(20)
                   \/ rule_in[aspects[j]] - ml_in[aspects[j]] > Tenths(20) }

\* C21: combine_scores takes the aspects in the order content, organization,
\* language, conventions; the weights start at 0.7 / 0.3 and, once set to
\* 0.4 / 0.6, stay so to the end of the call; an aspect is combined with
\* 0.4 / 0.6 exactly when it or an aspect before it has scores more than 2.0
\* apart, with 0.7 / 0.3 otherwise, and overall is the mean of the four.
C21_WeightsLatch ==
    /\ [](/\ loop_at = 0 => (ml_weight = 7 /\ rule_weight = 3)
          /\ DOMAIN combined \ {"overall"} = { aspects[k] : k \in 1..Min(loop_at, 4) }
          /\ \A k \in 1..Len(weights_used) :
                 /\ weights_used[k] = IF DivergedUpTo(k) # {} THEN <<4, 6>> ELSE <<7, 3>>
                 /\ combined[aspects[k]]
                        = (ml_in[aspects[k]] * weights_used[k][1]
                             + rule_in[aspects[k]] * weights_used[k][2]) \div 10
          /\ loop_at = 5 => combined = combine_scores(ml_in, rule_in, PyStr("intermediate")))
    /\ [][ml_weight = 4 => (ml_weight' = 4 /\ rule_weight' = 6)]_vars

\* a call has returned in which the second aspect was the first to diverge:
\* the first aspect was combined with 0.7 / 0.3, the last, whose own scores
\* are not far apart, with 0.4 / 0.6
C21_Witness ==
    /\ loop_at = 5
    /\ DivergedUpTo(4) = {2}
    /\ weights_used = << <<7, 3>>, <<4, 6>>, <<4, 6>>, <<4, 6>> >>

\* the errors of the list handed to the adjustment whose category is one of
\* spelling, grammar, punctuation and style, and those of category style
CountedErrors ==
    { k \in 1..Len(given_errors) :
          given_errors[k].type \in {"spelling", "grammar", "punctuation", "style"} }
StyleErrors == { k \in 1..Len(given_errors) : given_errors[k].type = "style" }

DetectorRecords(t) ==
    detect_spelling_errors(error_detector, t)
        \o detect_grammar_errors(error_detector, t)
        \o detect_punctuation_errors(error_detector, t)
        \o detect_word_choice_errors(error_detector, t)
        \o detect_style_issues(error_detector, t)
        \o detect_coherence_issues(error_detector, t)
        \o detect_redundancy_issues(error_detector, t)
        \o detect_clarity_issues(error_detector, t)

C24_StructureScore ==
    struct_result # None
    => /\ ~struct_result.raised
       /\ struct_result.value
              = Min(10000000,
                    5000000
                      + 1000000 * Cardinality({ f \in {"has_intro", "has_conclusion", "has_thesis"} :
                                                   struct_call[f] })
                      + (CASE struct_call.para_count >= 4 -> 1000000
                           [] struct_call.para_count = 3 -> 500000
                           [] struct_call.para_count = 2 -> 0
                           [] struct_call.para_count < 2 -> -1000000)
                      + (CASE struct_call.transitions >= 3 -> 1000000
                           [] struct_call.transitions \in {1, 2} -> 500000
                           [] struct_call.transitions = 0 -> 0))
       /\ struct_result.value >= 1000000
       /\ struct_result.value <= 10000000

\* a call with everything present: the sum reaches 10.0
C24_Witness ==
    /\ struct_result # None
    /\ struct_call.has_intro /\ struct_call.has_conclusion /\ struct_call.has_thesis
    /\ struct_call.para_count = 4
    /\ struct_call.transitions = 3
    /\ struct_result.value = 10000000

\* the level factor the claim gives: 1.1 for beginner, 0.9 for advanced and
\* 1.0 for every other level, in tenths
ClaimedLevelFactor(level) ==
    IF level.type # "str" THEN 10
    ELSE IF level.value = "beginner" THEN 11
    ELSE IF level.value = "advanced" THEN 9
    ELSE 10

\* the errors of severity sev among the resolved errors of the essay
OfSeverity(errors, sev) == Cardinality({ k \in 1..Len(errors) : errors[k].severity = sev })

\* C25: the rule-based conventions score is max(1.0, 8.0 - 0.5 per
\* high-severity, 0.3 per medium-severity and 0.1 per low-severity resolved
\* error), lies in [1.0, 8.0] and is the same for every level; the level
\* factor (1.1 beginner, 0.9 advanced, 1.0 otherwise) multiplies only
\* content, organization and language, each capped at 10.0
C25_ConventionsIgnoreTheLevel ==
    (rules_result # None /\ ~rules_result.raised) =>
        /\ rules_result.value.conventions \in
               { Max(1000000, 8000000 - 500000 * OfSeverity(errors, "high")
                                      - 300000 * OfSeverity(errors, "medium")
                                      - 100000 * OfSeverity(errors, "low")) :
                 errors \in { detect_all_errors(error_detector, rules_call.essay) } }
        /\ rules_result.value.conventions >= 1000000
        /\ rules_result.value.conventions <= 8000000
        /\ \A l \in 1..Len(RulesLevels) :
              \/ get_rule_based_scores(rules_call.essay, rules_call.prompt, RulesLevels[l],
                     analyze_essay_features(rules_call.essay),
                     detect_all_errors(error_detector, rules_call.essay)).raised
              \/ get_rule_based_scores(rules_call.essay, rules_call.prompt, RulesLevels[l],
                     analyze_essay_features(rules_call.essay),
                     detect_all_errors(error_detector, rules_call.essay)).value.conventions
                   = rules_result.value.conventions
        /\ rules_result.value.content =
               Min(10000000,
                   (score_content_rule_based(rules_call.essay, rules_call.prompt,
                        analyze_essay_features(rules_call.essay)).value
                      * ClaimedLevelFactor(rules_call.level)) \div 10)
        /\ rules_result.value.organization =
               Min(10000000,
                   (score_organization_rule_based(rules_call.essay,
                        analyze_essay_features(rules_call.essay))
                      * ClaimedLevelFactor(rules_call.level)) \div 10)
        /\ rules_result.value.language =
               Min(10000000,
                   (score_language_rule_based(rules_call.essay,
                        analyze_essay_features(rules_call.essay))
                      * ClaimedLevelFactor(rules_call.level)) \div 10)

\* a beginner's essay with errors whose language score reaches the cap
C25_Witness ==
    /\ rules_result # None
    /\ ~rules_result.raised
    /\ rules_call.level.type = "str"
    /\ rules_call.level.value = "beginner"
    /\ rules_result.value.conventions > 1000000
    /\ rules_result.value.conventions < 8000000
    /\ rules_result.value.language = 10000000
    /\ score_language_rule_based(rules_call.essay,
           analyze_essay_features(rules_call.essay)) * 11 > 100000000

\* C26: every candidate filter_overlapping_errors drops overlaps a record it
\* retains whose confidence is at least the candidate's own
C26_DroppedOverlapsRetained ==
    fpc = "done" =>
        \A k \in 1..Len(cands) :
            (\A j \in 1..Len(filtered) : filtered[j] # cands[k]) =>
                \E j \in 1..Len(filtered) :
                    /\ Overlap(cands[k], filtered[j])
                    /\ filtered[j].confidence >= cands[k].confidence

\* the records of the modal rule among the returned ones: their matched text
\* is a modal verb followed by " of"
ModalRecords ==
    { k \in 1..Len(gram_errors.value) :
        \E modal \in Modals : gram_errors.value[k].text = modal \o " of" }

\* C27: for every match of the modal rule (could, should, would, must or
\* might followed by "of") the suggestion is the matched text with "of"
\* replaced by "have"
C27_ModalSuggestionReplacesOf ==
    gram_errors # None =>
        \A k \in ModalRecords :
            gram_errors.value[k].suggestion =
                Slice(gram_errors.value[k].text, 0, Len(gram_errors.value[k].text) - 2)
                    \o "have"

\* a can be had from b by leaving records out, the others keeping their order
RECURSIVE IsSubList(_, _)
IsSubList(a, b) ==
    IF a = <<>> THEN TRUE
    ELSE IF b = <<>> THEN FALSE
    ELSE IF Head(a) = Head(b) THEN IsSubList(Tail(a), Tail(b))
    ELSE IsSubList(a, Tail(b))

\* C28: the resolver only selects and is idempotent: its result is a sub-list
\* of the unmodified candidates, taken in the order of their start positions
\* (the more confident first among equal starts), is non-empty when the
\* candidate list is, and resolving the result again gives the result
C28_SelectsFromSortedAndIsIdempotent ==
    fpc = "done" =>
        /\ IsSubList(filtered, SortByStartConf(cands))
        /\ (cands # <<>> => filtered # <<>>)
        /\ filter_overlapping_errors(filtered) = filtered

\* C28 as stated: the result is a sub-list of the candidate list itself
C28_SelectsInCandidateOrder ==
    fpc = "done" =>
        /\ IsSubList(filtered, cands)
        /\ (cands # <<>> => filtered # <<>>)
        /\ filter_overlapping_errors(filtered) = filtered

\* three candidates given out of order: one is dropped and the two retained
\* come back in the order of their start positions
C28_Witness ==
    /\ fpc = "done"
    /\ Len(cands) = 3
    /\ Len(filtered) = 2
    /\ ~IsSubList(filtered, cands)
    /\ filtered[1].start_pos < filtered[2].start_pos

\* C29: every record detect_spelling_errors gives for a text is among the
\* records detect_all_errors returns for it, whatever other candidates
\* overlap it
C29_SpellingCandidatesSurvive ==
    last_call # None =>
        \A k \in 1..Len(detect_spelling_errors(error_detector, last_call.text)) :
            \E j \in 1..Len(last_call.errors) :
                last_call.errors[j] = detect_spelling_errors(error_detector, last_call.text)[k]

\* a misspelt word inside a clause the grammar detector reports: the
\* spelling record is returned and the grammar record that overlaps it is not
C29_Witness ==
    /\ last_call # None
    /\ \E j \in 1..Len(last_call.errors) :
          /\ last_call.errors[j].type = "spelling"
          /\ \E g \in 1..Len(detect_grammar_errors(error_detector, last_call.text)) :
                /\ Overlap(detect_grammar_errors(error_detector, last_call.text)[g],
                           last_call.errors[j])
                /\ \A i \in 1..Len(last_call.errors) :
                      last_call.errors[i]
                          # detect_grammar_errors(error_detector, last_call.text)[g]

\* values the model could have given for the overall score, one of them
\* outside the range of the scores
OtherOveralls == { Tenths(10), Tenths(55), Tenths(100), Tenths(190) }

\* the adjusted scores of the analysis had the model answered v for the
\* overall score and the same for the four aspects
AdjustedWithOverall(v) ==
    adjust_scores_for_errors(
        combine_scores([frame.ml_scores EXCEPT !.overall = v], frame.rule_scores, frame.level),
        frame.detected_errors)

\* C30: the overall score the model gives has no influence on the result: the
\* analysis with any other value in its place returns the same scores,
\* feedback and improvements; and the reported overall_score is the mean of
\* the four aspect scores after the penalties, rounded to one decimal (on the
\* fallback path the mean of the four aspect scores, which carry no penalty)
C30_ModelOverallHasNoInfluence ==
    (pc \in {"print", "exited"} /\ "analysis" \in DOMAIN frame) =>
        IF frame.analysis.analysis_method = "fallback"
        THEN /\ frame.analysis = fallback_analysis(frame.essay, frame.prompt, frame.level).value
             /\ frame.analysis.overall_score =
                    Round1((frame.analysis.detailed_scores.content
                              + frame.analysis.detailed_scores.organization
                              + frame.analysis.detailed_scores.language
                              + frame.analysis.detailed_scores.conventions) \div 4)
        ELSE /\ \A v \in OtherOveralls :
                    /\ frame.analysis.overall_score = Round1(AdjustedWithOverall(v).overall)
                    /\ frame.analysis.detailed_scores =
                           [content |-> Round1(AdjustedWithOverall(v).content),
                            organization |-> Round1(AdjustedWithOverall(v).organization),
                            language |-> Round1(AdjustedWithOverall(v).language),
                            conventions |-> Round1(AdjustedWithOverall(v).conventions)]
                    /\ frame.analysis.feedback =
                           generate_comprehensive_feedback(AdjustedWithOverall(v),
                               frame.basic_stats, frame.level, frame.detected_errors)
                    /\ frame.analysis.improvements =
                           generate_improvement_suggestions(AdjustedWithOverall(v),
                               frame.detected_errors, frame.level)
             /\ frame.analysis.overall_score =
                    Round1((frame.adjusted_scores.content + frame.adjusted_scores.organization
                              + frame.adjusted_scores.language
                              + frame.adjusted_scores.conventions) \div 4)

\* a finished analysis of an essay with counted errors, the model having
\* answered an overall score that is not the reported one
C30_Witness ==
    /\ pc = "exited"
    /\ "analysis" \in DOMAIN frame
    /\ frame.analysis.analysis_method = "comprehensive_ml_rule_hybrid"
    /\ ~frame.provided.raised
    /\ Round1(frame.ml_scores.overall) # frame.analysis.overall_score
    /\ frame.adjusted_scores.conventions < frame.final_scores.conventions

====
